---- MODULE Spec2Model ----
(***************************************************************************)
(* A model of the fingering engine of exquisite-fingerings: the grid       *)
(* geometry of the devices (pad index <-> row/col), the chord matcher, the *)
(* fingering scorer/ranker, the fingering synthesizer, and the pure        *)
(* pitch-class and chord-notation functions (strings are sequences of     *)
(* characters).                                                            *)
(*                                                                         *)
(* Numbers.  The scorer's arithmetic is modelled exactly over the reals:   *)
(* a span is kept as its square (an integer) and every rounded score is    *)
(* floor((P - Q*sqrt(d2))/D) computed with an integer ceiling square root. *)
(* The synthesizer's score is a fraction, kept as an integer number of     *)
(* 1/60000 points, with square roots truncated to the thousandth.          *)
(***************************************************************************)
EXTENDS Integers, Sequences, FiniteSets, TLC

\* ------------------------------------------------------------------ bounds

\* How far outside [0, rowLength) the column argument of getPadIndex ranges.
ColSlack == 2

\* The largest number of handprints in the store handed to the engine.
MaxHandprints == 2

\* The largest transposition, root and negative MIDI note tried, in semitones.
MaxSemitones == 25

\* The longest text typed into the custom pitch class field.
MaxPcStringLen == 4

\* The longest chord notation parsed.
MaxNotationLen == 4

\* The most note-off timers pending at once.
MaxPendingNoteOffs == 2

\* The most playChord calls whose staggered timers are pending at once.
MaxPendingChords == 2

\* The most handprints saved while the app runs.
MaxSavedHandprints == 1

\* The most clicks on "Start Capture" still waiting for midiManager.init().
MaxPendingStarts == 2

\* The most patterns kept under one localStorage key.
MaxPatterns == 3

\* ----------------------------------------------------------------- helpers

Max(a, b) == IF a >= b THEN a ELSE b
Min(a, b) == IF a <= b THEN a ELSE b

\* Math.max(...S) and Math.min(...S) of a non-empty set of numbers
SetMax(S) == CHOOSE m \in S : \A x \in S : x <= m
SetMin(S) == CHOOSE m \in S : \A x \in S : m <= x

RECURSIVE SeqSum(_)
SeqSum(s) == IF s = <<>> THEN 0 ELSE Head(s) + SeqSum(Tail(s))


Range(s) == {s[i] : i \in 1..Len(s)}

\* -------------------------------------------------------- hex grid geometry

\* exquis-geometry.js ROW_COUNT (grid.js: export const ROW_COUNT = 11)
ROW_COUNT == 11

\* getRowLength(row): 6 pads on even rows, 5 on odd rows
getRowLength(row) == IF row % 2 = 0 THEN 6 ELSE 5

\* ROW_START for the intervals layout: starts[r] = starts[r-1] + (r odd ? 4 : 3)
RECURSIVE RowStartIntervals(_)
RowStartIntervals(r) ==
  IF r = 0 THEN 0
  ELSE RowStartIntervals(r - 1) + (IF r % 2 = 1 THEN 4 ELSE 3)

ROW_START_INTERVALS == [r \in 0..(ROW_COUNT - 1) |-> RowStartIntervals(r)]

\* ROW_START for the chromatic layout: the cumulative row lengths
\* [0, 6, 11, 17, 22, 28, 33, 39, 44, 50, 55]
RECURSIVE RowStartChromatic(_)
RowStartChromatic(r) ==
  IF r = 0 THEN 0
  ELSE RowStartChromatic(r - 1) + getRowLength(r - 1)

ROW_START_CHROMATIC == [r \in 0..(ROW_COUNT - 1) |-> RowStartChromatic(r)]

GridModes == {"intervals", "chromatic"}

\* A row-start lookup that forgets the chromatic table
GetRowStartIgnoringMode(mode) == ROW_START_INTERVALS

\* ExquisDevice._getRowStart()
GetRowStart(mode) ==
  IF mode = "chromatic" THEN ROW_START_CHROMATIC ELSE ROW_START_INTERVALS

\* A getPadIndex that validates the column and throws (ok = FALSE) outside the row
ExquisGetPadIndexChecked(mode, row, col) ==
  IF col >= 0 /\ col < getRowLength(row)
  THEN [ok |-> TRUE, idx |-> GetRowStart(mode)[row] + col]
  ELSE [ok |-> FALSE, idx |-> 0]

\* ExquisDevice.getPadIndex(row, col): ROW_START[row] + col, no check of col;
\* ok = FALSE would stand for a thrown error
ExquisGetPadIndex(mode, row, col) == [ok |-> TRUE, idx |-> GetRowStart(mode)[row] + col]

\* The rows whose column range contains padIndex
RowsContaining(mode, padIndex) ==
  {r \in 0..(ROW_COUNT - 1) :
     /\ padIndex >= GetRowStart(mode)[r]
     /\ padIndex - GetRowStart(mode)[r] >= 0
     /\ padIndex - GetRowStart(mode)[r] < getRowLength(r)}

NoRowCol == [ok |-> FALSE, row |-> -1, col |-> -1]

\* The loop of getRowCol from row `row` upward; throws when no row is left
RECURSIVE RowColScan(_, _, _)
RowColScan(mode, padIndex, row) ==
  IF row >= ROW_COUNT THEN NoRowCol
  ELSE LET col == padIndex - GetRowStart(mode)[row]
       IN  IF padIndex >= GetRowStart(mode)[row] /\ col >= 0 /\ col < getRowLength(row)
           THEN [ok |-> TRUE, row |-> row, col |-> col]
           ELSE RowColScan(mode, padIndex, row + 1)

\* A scan from the top row down: returns the highest containing row
RECURSIVE RowColScanDown(_, _, _)
RowColScanDown(mode, padIndex, row) ==
  IF row < 0 THEN NoRowCol
  ELSE LET col == padIndex - GetRowStart(mode)[row]
       IN  IF padIndex >= GetRowStart(mode)[row] /\ col >= 0 /\ col < getRowLength(row)
           THEN [ok |-> TRUE, row |-> row, col |-> col]
           ELSE RowColScanDown(mode, padIndex, row - 1)

ExquisGetRowColTopDown(mode, padIndex) == RowColScanDown(mode, padIndex, ROW_COUNT - 1)

\* getRowCol with the column test off by one (col <= rowLength)
RECURSIVE RowColScanOffByOne(_, _, _)
RowColScanOffByOne(mode, padIndex, row) ==
  IF row >= ROW_COUNT THEN NoRowCol
  ELSE LET col == padIndex - GetRowStart(mode)[row]
       IN  IF padIndex >= GetRowStart(mode)[row] /\ col >= 0 /\ col <= getRowLength(row)
           THEN [ok |-> TRUE, row |-> row, col |-> col]
           ELSE RowColScanOffByOne(mode, padIndex, row + 1)

ExquisGetRowColOffByOne(mode, padIndex) == RowColScanOffByOne(mode, padIndex, 0)

\* ExquisDevice.getRowCol(padIndex); ok = FALSE stands for the thrown Error
ExquisGetRowCol(mode, padIndex) == RowColScan(mode, padIndex, 0)

\* ----------------------------------------------------- square grid geometry

SQ_ROW_COUNT == 8
COL_COUNT == 8

SquareRowLength(row) == COL_COUNT

\* LaunchpadXDevice.getPadIndex / LaunchpadProMk1Device.getPadIndex
SquareGetPadIndex(row, col) == [ok |-> TRUE, idx |-> row * COL_COUNT + col]

\* Math.floor(padIndex / COL_COUNT) and the JavaScript remainder (sign of the
\* dividend) of padIndex % COL_COUNT
JsFloorDiv(a, b) == a \div b
JsRem(a, b) == IF a >= 0 THEN a % b ELSE -((-a) % b)

\* LaunchpadXDevice.getRowCol / LaunchpadProMk1Device.getRowCol
SquareGetRowCol(padIndex) ==
  LET row == JsFloorDiv(padIndex, COL_COUNT)
      col == JsRem(padIndex, COL_COUNT)
  IN  IF row < 0 \/ row >= SQ_ROW_COUNT \/ col < 0 \/ col >= COL_COUNT
      THEN NoRowCol
      ELSE [ok |-> TRUE, row |-> row, col |-> col]

Devices == {"exquis", "launchpad-x", "launchpad-pro-mk1"}

IsSquare(dev) == dev # "exquis"

DeviceRowCount(dev) == IF IsSquare(dev) THEN SQ_ROW_COUNT ELSE ROW_COUNT

DeviceRowLength(dev, row) == IF IsSquare(dev) THEN SquareRowLength(row) ELSE getRowLength(row)

\* device.getPadIndex(row, col), dispatched on the device
DeviceGetPadIndex(dev, mode, row, col) ==
  IF IsSquare(dev) THEN SquareGetPadIndex(row, col) ELSE ExquisGetPadIndex(mode, row, col)

\* device.getRowCol(padIndex), dispatched on the device
DeviceGetRowCol(dev, mode, padIndex) ==
  IF IsSquare(dev) THEN SquareGetRowCol(padIndex) ELSE ExquisGetRowCol(mode, padIndex)

ValidPos(dev, row, col) ==
  /\ row \in 0..(DeviceRowCount(dev) - 1)
  /\ col >= 0 /\ col < DeviceRowLength(dev, row)

\* LaunchpadXDevice.getMidiNote: baseMidi + (row * 5) + col
LaunchpadXGetMidiNote(row, col, baseMidi) == baseMidi + (row * 5) + col

\* LaunchpadProMk1Device.getMidiNote: baseMidi + this.getPadIndex(row, col)
LaunchpadProMk1GetMidiNote(row, col, baseMidi) == baseMidi + SquareGetPadIndex(row, col).idx

\* ExquisDevice.getMidiNote: baseMidi + this.getPadIndex(row, col)
ExquisGetMidiNote(mode, row, col, baseMidi) == baseMidi + ExquisGetPadIndex(mode, row, col).idx

\* device.getMidiNote(row, col, baseMidi), dispatched on the device
DeviceGetMidiNote(dev, mode, row, col, baseMidi) ==
  IF dev = "launchpad-x" THEN LaunchpadXGetMidiNote(row, col, baseMidi)
  ELSE IF dev = "launchpad-pro-mk1" THEN LaunchpadProMk1GetMidiNote(row, col, baseMidi)
  ELSE ExquisGetMidiNote(mode, row, col, baseMidi)

\* -------------------------------------------------------------- pitch class

\* midiToPitchClass(midiNote): ((midiNote % 12) + 12) % 12, % the JS remainder
midiToPitchClass(midiNote) == (JsRem(midiNote, 12) + 12) % 12

\* ---------------------------------------------------------------- handprints

\* A field that a JavaScript object does not have (undefined)
Undefined == -1

\* JavaScript truthiness of a number-or-undefined field (x || fallback)
Truthy(x) == x # Undefined /\ x # 0

\* One captured finger: handleHandprintPadID / handleHandprintClick push
\* {row, col, padIndex, midiNote, finger} with the chromatic pad index
CapturePos(sessionBaseMidi, rc, finger) ==
  LET idx == ExquisGetPadIndex("chromatic", rc[1], rc[2]).idx
  IN  [row |-> rc[1], col |-> rc[2], padIndex |-> idx,
       midiNote |-> sessionBaseMidi + idx, finger |-> finger]

\* The positions of a capture: the i-th pad pressed gets finger i
CapturePositions(sessionBaseMidi, pads) ==
  [i \in 1..Len(pads) |-> CapturePos(sessionBaseMidi, pads[i], i)]

\* The pad sequences of the captures handed to the engine (3 to 5 fingers):
\* a C major triad, the triad with two doubled notes on five fingers, the
\* triad stretched to the top row, and a compact C minor triad
ShapeMajor == << <<0, 0>>, <<0, 4>>, <<1, 1>> >>
ShapeDoubled == << <<0, 0>>, <<0, 4>>, <<1, 1>>, <<2, 1>>, <<2, 5>> >>
ShapeStretched == << <<0, 4>>, <<1, 1>>, <<10, 5>>, <<0, 0>> >>
ShapeMinor == << <<0, 0>>, <<0, 3>>, <<1, 1>> >>

Hands == {"left", "right"}

SessionBaseMidi == 48

\* The captures tried, each with its hand and its rating on the 0..100 slider
Captures ==
  { <<"right", 80, ShapeMajor>>,
    <<"right", 0, ShapeDoubled>>,  <<"left", 100, ShapeDoubled>>,
    <<"left", 0, ShapeStretched>>,
    <<"right", 100, ShapeMinor>>,  <<"left", 80, ShapeMinor>> }

\* saveHandprint(comfortRating): the handprint without its id
HandprintPool ==
  {[hand |-> c[1], comfortRating |-> c[2], baseMidi |-> SessionBaseMidi,
    positions |-> CapturePositions(SessionBaseMidi, c[3])] : c \in Captures}

\* The store: handprint i carries the id i (ids are unique in the app)
WithIds(hps) ==
  [i \in 1..Len(hps) |->
     [id |-> i, hand |-> hps[i].hand, comfortRating |-> hps[i].comfortRating,
      baseMidi |-> hps[i].baseMidi, positions |-> hps[i].positions]]

SeqsUpTo(S, n) == UNION {[1..k -> S] : k \in 0..n}

\* ------------------------------------------------------------- chord matcher

\* generateSubsets(arr, minSize, maxSize): backtrack(start, current) and its loop
RECURSIVE Backtrack(_, _, _, _, _), BacktrackLoop(_, _, _, _, _, _)
Backtrack(arr, minSize, maxSize, start, current) ==
  LET size == Len(current)
      here == IF size >= minSize /\ size <= maxSize THEN <<current>> ELSE <<>>
  IN  IF size = maxSize THEN here
      ELSE here \o BacktrackLoop(arr, minSize, maxSize, start, current, start)

BacktrackLoop(arr, minSize, maxSize, start, current, i) ==
  IF i > Len(arr) THEN <<>>
  ELSE Backtrack(arr, minSize, maxSize, i + 1, Append(current, arr[i]))
         \o BacktrackLoop(arr, minSize, maxSize, start, current, i + 1)

generateSubsets(arr, minSize, maxSize) == Backtrack(arr, minSize, maxSize, 1, <<>>)

\* pos.midiNote || (baseMidi + pos.padIndex)
PosMidiNote(pos, baseMidi) ==
  IF Truthy(pos.midiNote) THEN pos.midiNote ELSE baseMidi + pos.padIndex

\* An acceptance test that only looks for foreign pitch classes
PitchSetSubsetOnly(pitchSet, targetSet) == pitchSet \subseteq targetSet

\* pitchSet.size === targetSet.size && [...pitchSet].every(pc => targetSet.has(pc))
PitchSetMatches(pitchSet, targetSet) ==
  /\ Cardinality(pitchSet) = Cardinality(targetSet)
  /\ \A pc \in pitchSet : pc \in targetSet

\* a matcher that gives every candidate the neutral rating
CarriedComfortNeutral(handprint) == 50

\* comfortRating: handprint.comfortRating || 50
CarriedComfort(handprint) ==
  IF Truthy(handprint.comfortRating) THEN handprint.comfortRating ELSE 50

\* The fingering object built for an accepted subset
MakeFingering(handprint, subset, baseMidi) ==
  [handprintId |-> handprint.id,
   hand |-> handprint.hand,
   comfortRating |-> CarriedComfort(handprint),
   baseMidi |-> IF Truthy(handprint.baseMidi) THEN handprint.baseMidi ELSE baseMidi,
   positions |->
     [i \in 1..Len(subset) |->
        [row |-> subset[i].row, col |-> subset[i].col, padIndex |-> subset[i].padIndex,
         midiNote |-> PosMidiNote(subset[i], baseMidi),
         finger |-> subset[i].finger,
         pitchClass |-> midiToPitchClass(PosMidiNote(subset[i], baseMidi))]],
   score |-> 0, comfortScore |-> Undefined, geometricScore |-> 0, ergonomicScore |-> 0]

\* matches.push(fingering) for each accepted subset
PushFingerings(handprint, accepted, baseMidi) ==
  [i \in 1..Len(accepted) |-> MakeFingering(handprint, accepted[i], baseMidi)]

\* The matches one handprint contributes, in subset order
HandprintMatches(handprint, targetSet, baseMidi) ==
  LET Accept(subset) ==
        PitchSetMatches({midiToPitchClass(PosMidiNote(subset[i], baseMidi)) : i \in 1..Len(subset)},
                        targetSet)
  IN  PushFingerings(handprint, SelectSeq(generateSubsets(handprint.positions, 3, 5), Accept),
                     baseMidi)

RECURSIVE MatchAll(_, _, _)
MatchAll(hps, targetSet, baseMidi) ==
  IF hps = <<>> THEN <<>>
  ELSE HandprintMatches(Head(hps), targetSet, baseMidi) \o MatchAll(Tail(hps), targetSet, baseMidi)

\* hand ? handprints.filter(hp => hp.hand === hand) : handprints  ("any": no hand given)
FilterByHand(hps, hand) ==
  IF hand = "any" THEN hps
  ELSE LET Same(hp) == hp.hand = hand IN SelectSeq(hps, Same)

\* findChordFingerings(targetPitchClasses, handprints, baseMidi, hand)
findChordFingerings(targetPitchClasses, hps, baseMidi, hand) ==
  MatchAll(FilterByHand(hps, hand), Range(targetPitchClasses), baseMidi)

\* ----------------------------------------------------------- fingering scorer

\* Numbers.  The scorer computes in reals: span = Math.sqrt(d2) with d2 the
\* squared row/column distance, an integer.  Each piece of scoreGeometry's
\* spanScore is P - Q * sqrt(d2) with integers P and Q, so every rounding
\* Math.round(x) = floor(x + 1/2) is computed exactly through
\*   floor((A - Q * sqrt(d2)) / D) = (A - CeilSqrt(Q * Q * d2)) \div D.

\* floor(sqrt(n)) by bisection: lo * lo <= n < hi * hi
RECURSIVE FloorSqrtIn(_, _, _)
FloorSqrtIn(n, lo, hi) ==
  IF hi - lo <= 1 THEN lo
  ELSE LET mid == (lo + hi) \div 2
       IN  IF mid * mid <= n THEN FloorSqrtIn(n, mid, hi) ELSE FloorSqrtIn(n, lo, mid)

FloorSqrt(n) == FloorSqrtIn(n, 0, 46341)

\* The least k with k * k >= n
CeilSqrt(n) == LET f == FloorSqrt(n) IN IF f * f = n THEN f ELSE f + 1

RECURSIVE InsertAsc(_, _)
InsertAsc(sorted, x) ==
  IF sorted = <<>> THEN <<x>>
  ELSE IF x < Head(sorted) THEN <<x>> \o sorted
  ELSE <<Head(sorted)>> \o InsertAsc(Tail(sorted), x)

\* [...].sort((a, b) => a - b) on numbers
RECURSIVE SortAsc(_)
SortAsc(s) == IF s = <<>> THEN <<>> ELSE InsertAsc(SortAsc(SubSeq(s, 1, Len(s) - 1)), s[Len(s)])

Fingers(positions) == [i \in 1..Len(positions) |-> positions[i].finger]

\* usesConsecutiveFingers(positions): sorted fingers step by exactly one
usesConsecutiveFingers(positions) ==
  LET fingers == SortAsc(Fingers(positions))
  IN  \A i \in 2..Len(fingers) : fingers[i] = fingers[i - 1] + 1

\* calculateSpan(positions), squared: max over pairs of rowDiff^2 + colDiff^2
\* (0 for fewer than two positions)
SpanSquared(positions) ==
  LET n == Len(positions)
      d2s == {(positions[i].row - positions[j].row) * (positions[i].row - positions[j].row)
                + (positions[i].col - positions[j].col) * (positions[i].col - positions[j].col) :
              i \in 1..n, j \in 1..n}
  IN  IF n < 2 THEN 0 ELSE SetMax(d2s)

\* scoreComfort(fingering): fingering.comfortRating || 50
scoreComfort(fingering) ==
  IF Truthy(fingering.comfortRating) THEN fingering.comfortRating ELSE 50

\* the line 160 - 15 * span between spans 3 and 7, which passes through 85 at
\* span 5 and jumps at spans 3 and 7
SpanScoreLineThrough85(d2) ==
  IF d2 <= 9 THEN <<100, 0>>
  ELSE IF d2 <= 49 THEN <<160, 15>>
  ELSE IF d2 < 121 THEN <<110, 10>>
  ELSE <<0, 0>>

\* spanScore of scoreGeometry as the pair <<P, Q>> of P - Q * span, span = sqrt(d2):
\* span <= 3: 100;  span <= 5: 100 - (span - 3) * 15;  span <= 7: 70 - (span - 5) * 15
\* (the same line 145 - 15 * span);  else max(0, 40 - (span - 7) * 10), 0 from span 11
SpanScoreLine(d2) ==
  IF d2 <= 9 THEN <<100, 0>>
  ELSE IF d2 <= 25 THEN <<145, 15>>
  ELSE IF d2 <= 49 THEN <<145, 15>>
  ELSE IF d2 < 121 THEN <<110, 10>>
  ELSE <<0, 0>>

\* Math.sqrt(d2) in thousandths
SqrtMilli(d2) == FloorSqrt(d2 * 1000000)

\* spanScore of scoreGeometry, in thousandths of a point, for the span sqrt(d2)
spanScore(d2) ==
  LET pq == SpanScoreLine(d2)
  IN  pq[1] * 1000 - pq[2] * SqrtMilli(d2)

\* rowSpan of scoreGeometry: Math.max(...rows) - Math.min(...rows)
RowSpan(positions) ==
  LET rows == {positions[i].row : i \in 1..Len(positions)}
  IN  SetMax(rows) - SetMin(rows)

\* compactnessScore of scoreGeometry
CompactnessScore(positions) ==
  LET rowSpan == RowSpan(positions)
  IN  IF rowSpan <= 2 THEN 100 ELSE Max(0, 100 - (rowSpan - 2) * 20)

\* Math.round((spanScore + compactnessScore) / 2) for span = sqrt(d2),
\* spanScore = pq[1] - pq[2] * span and compactnessScore = K
RoundedGeometry(d2, pq, K) == (pq[1] + K + 1 - CeilSqrt(pq[2] * pq[2] * d2)) \div 2

GeometryOfSpan(d2, K) == RoundedGeometry(d2, SpanScoreLine(d2), K)

\* scoreGeometry(fingering), as scoreFingering rounds it
scoreGeometry(fingering) ==
  GeometryOfSpan(SpanSquared(fingering.positions), CompactnessScore(fingering.positions))

\* scoreErgonomics(fingering)
scoreErgonomics(fingering) ==
  LET positions == fingering.positions
      fingers == Range(Fingers(positions))
      n == Len(positions)
      base == 50
      consecutive == IF usesConsecutiveFingers(positions) THEN 30 ELSE 0
      count == IF n = 3 \/ n = 4 THEN 20 ELSE IF n = 5 THEN 10 ELSE 0
      stretch == IF 1 \in fingers /\ 5 \in fingers /\ fingers \cap {2, 3, 4} = {}
                 THEN -30 ELSE 0
      thumbPinky == IF n = 2 /\ 1 \in fingers /\ 5 \in fingers THEN -20 ELSE 0
  IN  Max(0, Min(100, base + consecutive + count + stretch + thumbPinky))

\* A total that adds the three parts without the 0.4 / 0.3 / 0.3 weights
ScoreTotalUnweighted(fingering) ==
  scoreComfort(fingering) + scoreGeometry(fingering) + scoreErgonomics(fingering)

\* Math.round(c * 0.4 + geometric * 0.3 + e * 0.3) with geometric unrounded,
\* (pq[1] + K - pq[2] * span) / 2:  floor((8c + 3(P + K) + 6e + 10 - 3 Q span) / 20)
RoundedTotal(c, d2, pq, K, e) ==
  (8 * c + 3 * (pq[1] + K) + 6 * e + 10 - CeilSqrt(9 * pq[2] * pq[2] * d2)) \div 20

TotalOfSpan(c, d2, K, e) == RoundedTotal(c, d2, SpanScoreLine(d2), K, e)

\* score: Math.round(totalScore) of scoreFingering
ScoreTotal(fingering) ==
  TotalOfSpan(scoreComfort(fingering), SpanSquared(fingering.positions),
              CompactnessScore(fingering.positions), scoreErgonomics(fingering))

\* scoreFingering(fingering): the fingering with its four scores
scoreFingering(fingering) ==
  [fingering EXCEPT !.score = ScoreTotal(fingering),
                    !.comfortScore = scoreComfort(fingering),
                    !.geometricScore = scoreGeometry(fingering),
                    !.ergonomicScore = scoreErgonomics(fingering)]

\* Insertion for an ascending sort (comparator a.score - b.score)
RECURSIVE InsertByScoreAsc(_, _)
InsertByScoreAsc(sorted, f) ==
  IF sorted = <<>> THEN <<f>>
  ELSE IF f.score < Head(sorted).score THEN <<f>> \o sorted
  ELSE <<Head(sorted)>> \o InsertByScoreAsc(Tail(sorted), f)

\* Insertion that places an element before the elements it ties with
RECURSIVE InsertByScoreBeforeTies(_, _)
InsertByScoreBeforeTies(sorted, f) ==
  IF sorted = <<>> THEN <<f>>
  ELSE IF f.score >= Head(sorted).score THEN <<f>> \o sorted
  ELSE <<Head(sorted)>> \o InsertByScoreBeforeTies(Tail(sorted), f)

\* One step of the stable sort with comparator b.score - a.score: f goes after
\* every element whose score is not lower
RECURSIVE InsertByScore(_, _)
InsertByScore(sorted, f) ==
  IF sorted = <<>> THEN <<f>>
  ELSE IF f.score > Head(sorted).score THEN <<f>> \o sorted
  ELSE <<Head(sorted)>> \o InsertByScore(Tail(sorted), f)

\* Array.prototype.sort((a, b) => b.score - a.score): stable since ES2019
RECURSIVE SortPrefixByScoreDesc(_, _)
SortPrefixByScoreDesc(s, n) ==
  IF n = 0 THEN <<>> ELSE InsertByScore(SortPrefixByScoreDesc(s, n - 1), s[n])

SortByScoreDesc(s) == SortPrefixByScoreDesc(s, Len(s))

\* rankFingerings(fingerings): fingerings.map(scoreFingering).sort(...)
rankFingerings(fingerings) ==
  SortByScoreDesc([i \in 1..Len(fingerings) |-> scoreFingering(fingerings[i])])

\* ---------------------------------------------------------- pattern extractor

\* The synthesizer's scores are fractions.  They are kept as integers in units
\* of 1 / ScoreUnit; square roots are kept in thousandths, rounded down.  With
\* ScoreUnit = 60000 every division the code makes (by the number of positions,
\* 1..5, by the number of handprints, 1..6, and by 2) is exact.
ScoreUnit == 60000

\* What Math.max / Math.min give once 0 / 0 has entered the sum
NaN == -2

\* The number of positions of handprint hp on pad (row, col) with this finger
FingerCountIn(hp, row, col, finger) ==
  Cardinality({i \in 1..Len(hp.positions) :
                 /\ hp.positions[i].row = row /\ hp.positions[i].col = col
                 /\ hp.positions[i].finger = finger})

\* patterns.fingerAssignments['r<row>c<col>'][finger] (0: no entry)
FingerCount(hps, row, col, finger) ==
  SeqSum([k \in 1..Len(hps) |-> FingerCountIn(hps[k], row, col, finger)])

\* extractChordShape(handprint): the fields that are read later (Undefined: null)
extractChordShape(handprint) ==
  IF Len(handprint.positions) < 3
  THEN [numFingers |-> Undefined, comfort |-> Undefined]
  ELSE [numFingers |-> Len(handprint.positions),
        comfort |-> IF Truthy(handprint.comfortRating) THEN handprint.comfortRating ELSE 50]

NoPatterns == [present |-> FALSE, hand |-> "any", handprints |-> <<>>,
               spanDistances |-> <<>>, chordShapes |-> <<>>]

\* extractPatterns(handprints, hand): null for an empty filtered set; the span
\* distances in thousandths; the handprints kept for the finger counts
extractPatterns(hps, hand) ==
  LET filtered == FilterByHand(hps, hand)
      shapes == [k \in 1..Len(filtered) |-> extractChordShape(filtered[k])]
      IsShape(sh) == sh.numFingers # Undefined
  IN  IF Len(filtered) = 0 THEN NoPatterns
      ELSE [present |-> TRUE, hand |-> hand, handprints |-> filtered,
            spanDistances |->
              [k \in 1..Len(filtered) |-> SqrtMilli(SpanSquared(filtered[k].positions))],
            chordShapes |-> SelectSeq(shapes, IsShape)]

\* suggestFingerForPosition(row, col, patterns): the lowest finger with the
\* highest count on that pad, Undefined (null) when the pad was never captured
BestFinger(count) ==
  IF \A f \in 1..5 : count[f] = 0 THEN Undefined
  ELSE CHOOSE f \in 1..5 :
         /\ count[f] > 0
         /\ \A g \in 1..5 : count[g] < count[f] \/ (count[g] = count[f] /\ f <= g)

suggestFingerForPosition(row, col, patterns) ==
  BestFinger([f \in 1..5 |-> FingerCount(patterns.handprints, row, col, f)])

\* calculatePatternSimilarity(candidateFingering, patterns), in 1 / ScoreUnit
Abs(x) == IF x < 0 THEN -x ELSE x

\* Math.max(0, 30 - spanDiff * 10) with spanDiff = |candidateSpan - avgSpan|
\* = |candidateSpan * n - sum of the n span distances| / n, spans in thousandths
SpanSimilarity(candidateSpan, spanDistances) ==
  Max(0, 30 * ScoreUnit
           - (10 * (ScoreUnit \div 1000)
                 * Abs(candidateSpan * Len(spanDistances) - SeqSum(spanDistances)))
               \div Len(spanDistances))

\* The best score over the learned chord shapes
BestShapeScore(numPositions, spanSimilarity, shapes) ==
  SetMax({(IF numPositions = shapes[k].numFingers THEN 20 * ScoreUnit ELSE 0)
            + spanSimilarity + (shapes[k].comfort * ScoreUnit) \div 2 : k \in 1..Len(shapes)})

calculatePatternSimilarity(candidateFingering, patterns) ==
  IF ~patterns.present \/ Len(patterns.chordShapes) = 0 THEN 50 * ScoreUnit
  ELSE Min(100 * ScoreUnit,
           BestShapeScore(Len(candidateFingering.positions),
                          SpanSimilarity(SqrtMilli(SpanSquared(candidateFingering.positions)),
                                         patterns.spanDistances),
                          patterns.chordShapes))

\* ------------------------------------------------------- fingering synthesizer

\* getPadIndex(row, col) of the legacy grid layer: the row starts of the
\* process-wide grid mode
LegacyGetPadIndex(mode, row, col) == ExquisGetPadIndex(mode, row, col).idx

\* The pads of one row in the scan of findPadCombinations
ScanRow(mode, baseMidi, row) ==
  [c \in 1..(IF row % 2 = 0 THEN 6 ELSE 5) |->
     LET idx == LegacyGetPadIndex(mode, row, c - 1)
     IN  [row |-> row, col |-> c - 1, padIndex |-> idx, midiNote |-> baseMidi + idx,
          pc |-> midiToPitchClass(baseMidi + idx)]]

\* The scan row = 0..maxRow, col = 0..length - 1
RECURSIVE ScanPads(_, _, _, _)
ScanPads(mode, baseMidi, row, maxRow) ==
  IF row > maxRow THEN <<>>
  ELSE ScanRow(mode, baseMidi, row) \o ScanPads(mode, baseMidi, row + 1, maxRow)

\* the target with its repeats kept: one key per element
PcKeysWithRepeats(target) == target

\* Array.from(padsByPC.keys()): the target without repeats, first occurrences
RECURSIVE PcKeys(_)
PcKeys(target) ==
  IF target = <<>> THEN <<>>
  ELSE LET init == PcKeys(SubSeq(target, 1, Len(target) - 1))
           last == target[Len(target)]
       IN  IF last \in Range(init) THEN init ELSE Append(init, last)

\* no limit on the pads tried per pitch class
LimitedPadsUnlimited(pads) == pads

\* pads.slice(0, 3)
LimitedPads(pads) == SubSeq(pads, 1, Min(3, Len(pads)))

\* generateCombos(index, current) and its loop over the limited pads
RECURSIVE GenerateCombos(_, _, _, _), GenerateCombosLoop(_, _, _, _, _)
GenerateCombos(pcKeys, scan, index, current) ==
  IF index > Len(pcKeys) THEN <<current>>
  ELSE LET Has(pad) == pad.pc = pcKeys[index]
       IN  GenerateCombosLoop(pcKeys, scan, index, current, LimitedPads(SelectSeq(scan, Has)))

GenerateCombosLoop(pcKeys, scan, index, current, pads) ==
  IF pads = <<>> THEN <<>>
  ELSE GenerateCombos(pcKeys, scan, index + 1, Append(current, Head(pads)))
         \o GenerateCombosLoop(pcKeys, scan, index, current, Tail(pads))

\* findPadCombinations(targetPitchClasses, baseMidi, maxRow = 5)
findPadCombinations(mode, targetPitchClasses, baseMidi) ==
  GenerateCombos(PcKeys(targetPitchClasses), ScanPads(mode, baseMidi, 0, 5), 1, <<>>)

\* the comparator with columns ascending for either hand
PadBeforeRightHanded(a, b, hand) ==
  IF a.row # b.row THEN a.row < b.row ELSE a.col < b.col

\* The comparator of assignFingers: a sorts before b
PadBefore(a, b, hand) ==
  IF a.row # b.row THEN a.row < b.row
  ELSE IF hand = "right" THEN a.col < b.col ELSE b.col < a.col

RECURSIVE InsertPad(_, _, _)
InsertPad(sorted, pad, hand) ==
  IF sorted = <<>> THEN <<pad>>
  ELSE IF PadBefore(pad, Head(sorted), hand) THEN <<pad>> \o sorted
  ELSE <<Head(sorted)>> \o InsertPad(Tail(sorted), pad, hand)

\* [...pads].sort(comparator), stable
RECURSIVE SortPads(_, _)
SortPads(pads, hand) ==
  IF pads = <<>> THEN <<>>
  ELSE InsertPad(SortPads(SubSeq(pads, 1, Len(pads) - 1), hand), pads[Len(pads)], hand)

\* finger = suggestion from the patterns, else Math.min(index + 1, 5)
\* (index counted from 1 here)
FingerOr(suggested, index) == IF Truthy(suggested) THEN suggested ELSE Min(index, 5)

\* sortedPads.map((pad, index) => ({...pad, finger, hand}))
FingerSortedPads(sortedPads, hand, patterns) ==
  [index \in 1..Len(sortedPads) |->
     [row |-> sortedPads[index].row, col |-> sortedPads[index].col,
      padIndex |-> sortedPads[index].padIndex, midiNote |-> sortedPads[index].midiNote,
      pc |-> sortedPads[index].pc,
      finger |-> FingerOr(IF patterns.present
                          THEN suggestFingerForPosition(sortedPads[index].row,
                                                        sortedPads[index].col, patterns)
                          ELSE Undefined, index),
      hand |-> hand]]

\* assignFingers(pads, hand, patterns)
assignFingers(pads, hand, patterns) == FingerSortedPads(SortPads(pads, hand), hand, patterns)

\* getCellCenter(row, col) without the padding, which cancels in distances
CellX(row, col) == col * 38 + (IF row % 2 = 1 THEN 19 ELSE 0)
CellY(row) == (ROW_COUNT - 1 - row) * 33

\* The synthesizer's calculateSpan, as the squared pixel distance: the span
\* is sqrt(PixelSpanSquared) / 38
PixelSpanSquared(positions) ==
  LET n == Len(positions)
      d2s == {(CellX(positions[i].row, positions[i].col) - CellX(positions[j].row, positions[j].col))
                * (CellX(positions[i].row, positions[i].col) - CellX(positions[j].row, positions[j].col))
              + (CellY(positions[i].row) - CellY(positions[j].row))
                * (CellY(positions[i].row) - CellY(positions[j].row)) :
              i \in 1..n, j \in 1..n}
  IN  IF n < 2 THEN 0 ELSE SetMax(d2s)

\* span < 1.5: +10;  span <= 3.0: +5;  span > 4.0: -20   (span = sqrt(pd2) / 38)
SpanBonus(pd2) ==
  IF 4 * pd2 < 9 * 38 * 38 THEN 10
  ELSE IF pd2 <= 9 * 38 * 38 THEN 5
  ELSE IF pd2 > 16 * 38 * 38 THEN -20
  ELSE 0

\* Math.min(100, Math.max(0, score))
SynthClamp(score) == Min(100 * ScoreUnit, Max(0, score))

\* scoreFingering(fingering, patterns) of the synthesizer, in 1 / ScoreUnit;
\* NaN for a fingering without positions (avgRow = 0 / 0)
SynthScoreFingering(fingering, patterns) ==
  LET n == Len(fingering.positions)
      base == IF patterns.present
              THEN (50 * ScoreUnit + calculatePatternSimilarity(fingering, patterns)) \div 2
              ELSE 50 * ScoreUnit
      bonus == SpanBonus(PixelSpanSquared(fingering.positions)) * ScoreUnit
      rowSum == SeqSum([i \in 1..n |-> fingering.positions[i].row])
      rowTerm == Max(0, 10 * ScoreUnit - (2 * ScoreUnit * rowSum) \div n)
  IN  IF n = 0 THEN NaN ELSE SynthClamp(base + bonus + rowTerm)

\* fingering.score = scoreFingering(fingering, patterns)
WithSynthScore(fingering, patterns) ==
  [fingering EXCEPT !.score = SynthScoreFingering(fingering, patterns)]

\* The fingering object built for one combination
SynthFingering(combo, targetPitchClasses, patterns, baseMidi, hand) ==
  WithSynthScore([hand |-> hand, baseMidi |-> baseMidi,
                  positions |-> assignFingers(combo, hand, patterns),
                  targetPitchClasses |-> targetPitchClasses, score |-> 0], patterns)

\* combinations.map(combo => fingering)
SynthMap(combinations, targetPitchClasses, patterns, baseMidi, hand) ==
  [k \in 1..Len(combinations) |->
     SynthFingering(combinations[k], targetPitchClasses, patterns, baseMidi, hand)]

\* The fingerings before the sort and the slice
SynthGenerated(mode, targetPitchClasses, hps, baseMidi, hand) ==
  SynthMap(findPadCombinations(mode, targetPitchClasses, baseMidi), targetPitchClasses,
           extractPatterns(hps, hand), baseMidi, hand)

\* the last maxSuggestions fingerings instead of the first
SliceLast(fingerings, maxSuggestions) ==
  SubSeq(fingerings, Len(fingerings) - Min(maxSuggestions, Len(fingerings)) + 1, Len(fingerings))

\* fingerings.slice(0, maxSuggestions)
Slice(fingerings, maxSuggestions) == SubSeq(fingerings, 1, Min(maxSuggestions, Len(fingerings)))

\* A synthesizer that refuses an empty store
SynthesizeRefusingEmptyStore(mode, targetPitchClasses, hps, baseMidi, hand, maxSuggestions) ==
  LET fingerings == IF hps = <<>> THEN <<>>
                    ELSE SynthGenerated(mode, targetPitchClasses, hps, baseMidi, hand)
  IN  [fingerings |-> fingerings,
       returned |-> Slice(SortByScoreDesc(fingerings), maxSuggestions)]

\* synthesizeFingerings(targetPitchClasses, handprints, baseMidi, hand, maxSuggestions)
\* under the grid mode that getPadIndex reads: the fingerings array it builds
\* (before the sort) and the array it returns
synthesizeFingerings(mode, targetPitchClasses, hps, baseMidi, hand, maxSuggestions) ==
  LET fingerings == SynthGenerated(mode, targetPitchClasses, hps, baseMidi, hand)
  IN  [fingerings |-> fingerings,
       returned |-> Slice(SortByScoreDesc(fingerings), maxSuggestions)]

\* --------------------------------------------------------- strings and music

\* A JavaScript string is modelled as the sequence of its characters.

\* String.prototype.trim: white space is removed at both ends
RECURSIVE TrimStart(_)
TrimStart(s) == IF s # <<>> /\ Head(s) = " " THEN TrimStart(Tail(s)) ELSE s

RECURSIVE TrimEnd(_)
TrimEnd(s) ==
  IF s # <<>> /\ s[Len(s)] = " " THEN TrimEnd(SubSeq(s, 1, Len(s) - 1)) ELSE s

Trim(s) == TrimEnd(TrimStart(s))

\* pcString.split(','): the pieces between the commas, empty pieces kept
RECURSIVE Split(_, _)
Split(s, current) ==
  IF s = <<>> THEN <<current>>
  ELSE IF Head(s) = "," THEN <<current>> \o Split(Tail(s), <<>>)
  ELSE Split(Tail(s), Append(current, Head(s)))

DigitValue ==
  ("0" :> 0) @@ ("1" :> 1) @@ ("2" :> 2) @@ ("3" :> 3) @@ ("4" :> 4)
  @@ ("5" :> 5) @@ ("6" :> 6) @@ ("7" :> 7) @@ ("8" :> 8) @@ ("9" :> 9)

IsDecimal(s) == s # <<>> /\ \A i \in 1..Len(s) : s[i] \in DOMAIN DigitValue

RECURSIVE DecimalValue(_)
DecimalValue(s) ==
  IF s = <<>> THEN 0
  ELSE 10 * DecimalValue(SubSeq(s, 1, Len(s) - 1)) + DigitValue[s[Len(s)]]

\* Number(string) for strings of digits, signs, blanks and letters: white space
\* is trimmed, the empty string is 0, an optionally signed run of digits is
\* that integer, and everything else is NaN
ToNumber(s) ==
  LET t == Trim(s)
  IN  IF t = <<>> THEN [nan |-> FALSE, n |-> 0]
      ELSE IF IsDecimal(t) THEN [nan |-> FALSE, n |-> DecimalValue(t)]
      ELSE IF Head(t) = "-" /\ IsDecimal(Tail(t))
           THEN [nan |-> FALSE, n |-> 0 - DecimalValue(Tail(t))]
      ELSE IF Head(t) = "+" /\ IsDecimal(Tail(t))
           THEN [nan |-> FALSE, n |-> DecimalValue(Tail(t))]
      ELSE [nan |-> TRUE, n |-> 0]

\* parseCustomPitchClasses(pcString)
parseCustomPitchClasses(pcString) ==
  IF pcString = <<>> \/ Trim(pcString) = <<>> THEN {}
  ELSE LET tokens == Split(pcString, <<>>)
           numbers == {ToNumber(tokens[i]) : i \in 1..Len(tokens)}
       IN  {JsRem(JsRem(x.n, 12) + 12, 12) : x \in {y \in numbers : ~y.nan}}

\* transposePcs(pcs, semitones)
transposePcs(pcs, semitones) == {JsRem(pc + semitones + 12, 12) : pc \in pcs}

\* CHORD_QUALITIES: the intervals of each chord quality
CHORD_QUALITIES ==
  ("major" :> <<0, 4, 7>>)
  @@ ("minor" :> <<0, 3, 7>>)
  @@ ("dim" :> <<0, 3, 6>>)
  @@ ("aug" :> <<0, 4, 8>>)
  @@ ("sus2" :> <<0, 2, 7>>)
  @@ ("sus4" :> <<0, 5, 7>>)
  @@ ("5" :> <<0, 7>>)
  @@ ("maj7" :> <<0, 4, 7, 11>>)
  @@ ("min7" :> <<0, 3, 7, 10>>)
  @@ ("dom7" :> <<0, 4, 7, 10>>)
  @@ ("dim7" :> <<0, 3, 6, 9>>)
  @@ ("hdim7" :> <<0, 3, 6, 10>>)
  @@ ("minmaj7" :> <<0, 3, 7, 11>>)
  @@ ("aug7" :> <<0, 4, 8, 10>>)
  @@ ("augmaj7" :> <<0, 4, 8, 11>>)
  @@ ("7sus4" :> <<0, 5, 7, 10>>)
  @@ ("7sus2" :> <<0, 2, 7, 10>>)
  @@ ("6" :> <<0, 4, 7, 9>>)
  @@ ("min6" :> <<0, 3, 7, 9>>)
  @@ ("6/9" :> <<0, 4, 7, 9, 14>>)
  @@ ("min6/9" :> <<0, 3, 7, 9, 14>>)
  @@ ("add2" :> <<0, 2, 4, 7>>)
  @@ ("add9" :> <<0, 4, 7, 14>>)
  @@ ("add4" :> <<0, 4, 5, 7>>)
  @@ ("maj9" :> <<0, 4, 7, 11, 14>>)
  @@ ("min9" :> <<0, 3, 7, 10, 14>>)
  @@ ("dom9" :> <<0, 4, 7, 10, 14>>)
  @@ ("dom7b9" :> <<0, 4, 7, 10, 13>>)
  @@ ("dom7#9" :> <<0, 4, 7, 10, 15>>)
  @@ ("maj7#9" :> <<0, 4, 7, 11, 15>>)
  @@ ("min7b9" :> <<0, 3, 7, 10, 13>>)
  @@ ("minadd9" :> <<0, 3, 7, 14>>)
  @@ ("maj11" :> <<0, 4, 7, 11, 14, 17>>)
  @@ ("min11" :> <<0, 3, 7, 10, 14, 17>>)
  @@ ("dom11" :> <<0, 4, 7, 10, 14, 17>>)
  @@ ("maj7#11" :> <<0, 4, 7, 11, 18>>)
  @@ ("dom7#11" :> <<0, 4, 7, 10, 18>>)
  @@ ("min11b5" :> <<0, 3, 6, 10, 14, 17>>)
  @@ ("maj13" :> <<0, 4, 7, 11, 14, 21>>)
  @@ ("min13" :> <<0, 3, 7, 10, 14, 21>>)
  @@ ("dom13" :> <<0, 4, 7, 10, 14, 21>>)
  @@ ("dom7b13" :> <<0, 4, 7, 10, 20>>)
  @@ ("maj7#11b13" :> <<0, 4, 7, 11, 18, 20>>)
  @@ ("7b5" :> <<0, 4, 6, 10>>)
  @@ ("7#5" :> <<0, 4, 8, 10>>)
  @@ ("7b5b9" :> <<0, 4, 6, 10, 13>>)
  @@ ("7b5#9" :> <<0, 4, 6, 10, 15>>)
  @@ ("7#5b9" :> <<0, 4, 8, 10, 13>>)
  @@ ("7#5#9" :> <<0, 4, 8, 10, 15>>)
  @@ ("alt7" :> <<0, 4, 6, 10, 13, 15, 20>>)
  @@ ("dimmaj7" :> <<0, 3, 6, 11>>)
  @@ ("dim9" :> <<0, 3, 6, 9, 14>>)
  @@ ("aug9" :> <<0, 4, 8, 10, 14>>)
  @@ ("quartal" :> <<0, 5, 10>>)
  @@ ("quartal4" :> <<0, 5, 10, 15>>)
  @@ ("quintal" :> <<0, 7, 14>>)
  @@ ("shell_maj7" :> <<4, 11>>)
  @@ ("shell_min7" :> <<3, 10>>)
  @@ ("shell_dom7" :> <<4, 10>>)
  @@ ("rootless_A_maj7" :> <<4, 7, 11, 14>>)
  @@ ("rootless_A_dom7" :> <<4, 7, 10, 14>>)
  @@ ("rootless_B_maj7" :> <<7, 11, 14, 16>>)
  @@ ("rootless_B_dom7" :> <<7, 10, 13, 16>>)
  @@ ("upper_maj" :> <<7, 11, 14>>)
  @@ ("upper_min" :> <<7, 10, 14>>)
  @@ ("sowhat" :> <<0, 5, 10, 14, 19>>)
  @@ ("poly_D_C" :> <<0, 2, 4, 5, 9>>)
  @@ ("poly_E_C" :> <<0, 4, 7, 11>>)
  @@ ("cluster_maj2" :> <<0, 2, 4>>)
  @@ ("cluster_min2" :> <<0, 1, 2>>)
  @@ ("cluster_4" :> <<0, 1, 2, 3>>)

\* What a function that threw leaves behind
Threw == [threw |-> TRUE, value |-> <<>>]

\* getChordPitchClasses(rootPC, quality)
getChordPitchClasses(rootPC, quality) ==
  IF quality \notin DOMAIN CHORD_QUALITIES THEN Threw
  ELSE LET intervals == CHORD_QUALITIES[quality]
       IN  [threw |-> FALSE,
            value |-> [i \in 1..Len(intervals) |-> JsRem(rootPC + intervals[i], 12)]]

\* ------------------------------------------------------------ chord notation

\* NOTE_TO_PC of the chord parser
NOTE_TO_PC ==
  (<<"C">> :> 0) @@ (<<"C", "#">> :> 1) @@ (<<"D", "b">> :> 1)
  @@ (<<"D">> :> 2) @@ (<<"D", "#">> :> 3) @@ (<<"E", "b">> :> 3)
  @@ (<<"E">> :> 4)
  @@ (<<"F">> :> 5) @@ (<<"F", "#">> :> 6) @@ (<<"G", "b">> :> 6)
  @@ (<<"G">> :> 7) @@ (<<"G", "#">> :> 8) @@ (<<"A", "b">> :> 8)
  @@ (<<"A">> :> 9) @@ (<<"A", "#">> :> 10) @@ (<<"B", "b">> :> 10)
  @@ (<<"B">> :> 11)

\* QUALITY_PATTERNS in the order of the source: each regex is a list of
\* alternatives anchored at both ends, so it accepts exactly these strings
QUALITY_PATTERNS == <<
  [regex |-> {<<"1", "3", "b", "9", "#", "1", "1">>}, quality |-> "dom13"],
  [regex |-> {<<"1", "3", "#", "1", "1">>}, quality |-> "dom13"],
  [regex |-> {<<"1", "3", "b", "9">>}, quality |-> "dom13"],
  [regex |-> {<<"7", "a", "l", "t">>, <<"a", "l", "t", "7">>, <<"a", "l", "t", "e", "r", "e", "d">>}, quality |-> "alt7"],
  [regex |-> {<<"7", "#", "5", "#", "9">>}, quality |-> "7#5#9"],
  [regex |-> {<<"7", "#", "5", "b", "9">>}, quality |-> "7#5b9"],
  [regex |-> {<<"7", "b", "5", "#", "9">>}, quality |-> "7b5#9"],
  [regex |-> {<<"7", "b", "5", "b", "9">>}, quality |-> "7b5b9"],
  [regex |-> {<<"7", "#", "5">>}, quality |-> "7#5"],
  [regex |-> {<<"7", "b", "5">>}, quality |-> "7b5"],
  [regex |-> {<<"7", "#", "9">>}, quality |-> "dom7#9"],
  [regex |-> {<<"7", "b", "9">>}, quality |-> "dom7b9"],
  [regex |-> {<<"m", "a", "j", "7", "#", "1", "1", "b", "1", "3">>, <<"M", "7", "#", "1", "1", "b", "1", "3">>, <<"U+0394", "7", "#", "1", "1", "b", "1", "3">>}, quality |-> "maj7#11b13"],
  [regex |-> {<<"1", "3">>, <<"d", "o", "m", "1", "3">>}, quality |-> "dom13"],
  [regex |-> {<<"m", "a", "j", "1", "3">>, <<"M", "1", "3">>, <<"U+0394", "1", "3">>}, quality |-> "maj13"],
  [regex |-> {<<"m", "1", "3">>, <<"m", "i", "n", "1", "3">>, <<"-", "1", "3">>}, quality |-> "min13"],
  [regex |-> {<<"7", "b", "1", "3">>}, quality |-> "dom7b13"],
  [regex |-> {<<"m", "a", "j", "7", "#", "1", "1">>, <<"M", "7", "#", "1", "1">>, <<"U+0394", "7", "#", "1", "1">>}, quality |-> "maj7#11"],
  [regex |-> {<<"7", "#", "1", "1">>}, quality |-> "dom7#11"],
  [regex |-> {<<"m", "1", "1", "b", "5">>, <<"m", "i", "n", "1", "1", "b", "5">>, <<"-", "1", "1", "b", "5">>}, quality |-> "min11b5"],
  [regex |-> {<<"1", "1">>, <<"d", "o", "m", "1", "1">>}, quality |-> "dom11"],
  [regex |-> {<<"m", "a", "j", "1", "1">>, <<"M", "1", "1">>, <<"U+0394", "1", "1">>}, quality |-> "maj11"],
  [regex |-> {<<"m", "1", "1">>, <<"m", "i", "n", "1", "1">>, <<"-", "1", "1">>}, quality |-> "min11"],
  [regex |-> {<<"m", "a", "j", "7", "#", "9">>, <<"M", "7", "#", "9">>, <<"U+0394", "7", "#", "9">>}, quality |-> "maj7#9"],
  [regex |-> {<<"m", "7", "b", "9">>, <<"m", "i", "n", "7", "b", "9">>, <<"-", "7", "b", "9">>}, quality |-> "min7b9"],
  [regex |-> {<<"9">>, <<"d", "o", "m", "9">>}, quality |-> "dom9"],
  [regex |-> {<<"m", "a", "j", "9">>, <<"M", "9">>, <<"U+0394", "9">>}, quality |-> "maj9"],
  [regex |-> {<<"m", "9">>, <<"m", "i", "n", "9">>, <<"-", "9">>}, quality |-> "min9"],
  [regex |-> {<<"a", "u", "g", "9">>, <<"+", "9">>}, quality |-> "aug9"],
  [regex |-> {<<"d", "i", "m", "9">>, <<"o", "9">>}, quality |-> "dim9"],
  [regex |-> {<<"m", "a", "j", "7">>, <<"M", "7">>, <<"U+0394", "7">>, <<"U+0394">>}, quality |-> "maj7"],
  [regex |-> {<<"m", "7">>, <<"m", "i", "n", "7">>, <<"-", "7">>}, quality |-> "min7"],
  [regex |-> {<<"7">>, <<"d", "o", "m", "7">>}, quality |-> "dom7"],
  [regex |-> {<<"d", "i", "m", "7">>, <<"o", "7">>, <<"U+00B0", "7">>}, quality |-> "dim7"],
  [regex |-> {<<"m", "7", "b", "5">>, <<"U+00F8", "7">>, <<"U+00F8">>, <<"h", "d", "i", "m", "7">>}, quality |-> "hdim7"],
  [regex |-> {<<"m", "M", "7">>, <<"m", "(", "m", "a", "j", "7", ")">>, <<"m", "i", "n", "m", "a", "j", "7">>, <<"-", "M", "7">>}, quality |-> "minmaj7"],
  [regex |-> {<<"a", "u", "g", "7">>, <<"+", "7">>}, quality |-> "aug7"],
  [regex |-> {<<"a", "u", "g", "m", "a", "j", "7">>, <<"+", "M", "7">>, <<"+", "m", "a", "j", "7">>}, quality |-> "augmaj7"],
  [regex |-> {<<"7", "s", "u", "s", "4">>}, quality |-> "7sus4"],
  [regex |-> {<<"7", "s", "u", "s", "2">>}, quality |-> "7sus2"],
  [regex |-> {<<"d", "i", "m", "M", "7">>, <<"o", "M", "7">>}, quality |-> "dimmaj7"],
  [regex |-> {<<"6", "/", "9">>, <<"6", "a", "d", "d", "9">>}, quality |-> "6/9"],
  [regex |-> {<<"m", "6", "/", "9">>, <<"m", "i", "n", "6", "/", "9">>, <<"-", "6", "/", "9">>}, quality |-> "min6/9"],
  [regex |-> {<<"6">>}, quality |-> "6"],
  [regex |-> {<<"m", "6">>, <<"m", "i", "n", "6">>, <<"-", "6">>}, quality |-> "min6"],
  [regex |-> {<<"a", "d", "d", "2">>}, quality |-> "add2"],
  [regex |-> {<<"a", "d", "d", "9">>}, quality |-> "add9"],
  [regex |-> {<<"a", "d", "d", "4">>}, quality |-> "add4"],
  [regex |-> {<<"m", "a", "d", "d", "9">>, <<"m", "i", "n", "a", "d", "d", "9">>, <<"-", "a", "d", "d", "9">>}, quality |-> "minadd9"],
  [regex |-> {<<"s", "u", "s", "2">>}, quality |-> "sus2"],
  [regex |-> {<<"s", "u", "s", "4">>, <<"s", "u", "s">>}, quality |-> "sus4"],
  [regex |-> {<<"m", "a", "j">>, <<"M">>, <<"m", "a", "j", "o", "r">>}, quality |-> "major"],
  [regex |-> {<<"m">>, <<"m", "i", "n">>, <<"m", "i", "n", "o", "r">>, <<"-">>}, quality |-> "minor"],
  [regex |-> {<<"d", "i", "m">>, <<"o">>, <<"U+00B0">>}, quality |-> "dim"],
  [regex |-> {<<"a", "u", "g">>, <<"+">>}, quality |-> "aug"],
  [regex |-> {<<"5">>}, quality |-> "5"],
  [regex |-> {<<"q", "u", "a", "r", "t", "a", "l">>}, quality |-> "quartal"],
  [regex |-> {<<"q", "u", "a", "r", "t", "a", "l", "4">>}, quality |-> "quartal4"],
  [regex |-> {<<"q", "u", "i", "n", "t", "a", "l">>}, quality |-> "quintal"],
  [regex |-> {<<"s", "o", "w", "h", "a", "t">>}, quality |-> "sowhat"]
>>

\* null
NullChord == [isNull |-> TRUE, rootPC |-> 0, quality |-> ""]

\* the loop over QUALITY_PATTERNS from pattern k on: the first pattern whose
\* regex accepts qualityStr decides, and null is returned when none does
RECURSIVE MatchQuality(_, _, _)
MatchQuality(rootPC, qualityStr, k) ==
  IF k > Len(QUALITY_PATTERNS) THEN NullChord
  ELSE IF qualityStr \in QUALITY_PATTERNS[k].regex
       THEN [isNull |-> FALSE, rootPC |-> rootPC, quality |-> QUALITY_PATTERNS[k].quality]
  ELSE MatchQuality(rootPC, qualityStr, k + 1)

\* rootStr: the two-character root when there is one, else the one-character
\* root, else the empty string
RootStr(notation) ==
  IF Len(notation) >= 2 /\ SubSeq(notation, 1, 2) \in DOMAIN NOTE_TO_PC
  THEN SubSeq(notation, 1, 2)
  ELSE IF Len(notation) >= 1 /\ SubSeq(notation, 1, 1) \in DOMAIN NOTE_TO_PC
  THEN SubSeq(notation, 1, 1)
  ELSE <<>>

\* the parse of a trimmed, non-empty notation
ParseTrimmed(notation) ==
  LET rootStr == RootStr(notation)
      qualityStr == SubSeq(notation, Len(rootStr) + 1, Len(notation))
  IN  IF rootStr = <<>> THEN NullChord
      ELSE IF qualityStr = <<>>
           THEN [isNull |-> FALSE, rootPC |-> NOTE_TO_PC[rootStr], quality |-> "major"]
      ELSE MatchQuality(NOTE_TO_PC[rootStr], qualityStr, 1)

\* a parser that takes an unmatched quality for a major triad
ParseChordNotationLenient(notation) ==
  LET r == ParseTrimmed(Trim(notation))
      rootStr == RootStr(Trim(notation))
  IN  IF r.isNull /\ rootStr # <<>>
      THEN [isNull |-> FALSE, rootPC |-> NOTE_TO_PC[rootStr], quality |-> "major"]
      ELSE r

\* parseChordNotation(notation) for a string
parseChordNotation(notation) ==
  IF notation = <<>> THEN NullChord
  ELSE IF Trim(notation) = <<>> THEN NullChord
  ELSE ParseTrimmed(Trim(notation))

\* ------------------------------------------------------------------- state

VARIABLES
  gridMode,   \* ExquisDevice.currentGridMode of the process-wide device
  device,     \* the device whose geometry is called
  argRow,     \* the row argument of getPadIndex
  argCol,     \* the column argument of getPadIndex
  padIndex,   \* what getPadIndex returned, with the mode it was computed in
  rowCol,     \* what getRowCol returned (ok = FALSE: it threw)
  gpc,        \* where the geometry caller is: "args", "indexed", "resolved"
  handprints, \* the handprint store handed to the engine (savedHandprints)
  call,       \* the engine call made last, with its arguments and its result
  pure,       \* a call of a pure function: its name, its argument, its result
  midi,       \* the MIDIManager, its pending timers and the notes sounding on the output
  capture,    \* the app's handprint capture session
  patterns    \* localStorage as the pattern code uses it

gridVars == <<device, argRow, argCol, padIndex, rowCol, gpc>>
engineVars == <<handprints, call>>
appVars == <<midi, capture, patterns>>
vars == <<gridMode, device, argRow, argCol, padIndex, rowCol, gpc, handprints, call, pure,
          midi, capture, patterns>>

NoPadIndex == [ok |-> FALSE, idx |-> 0, mode |-> "none"]
NoResult == [ok |-> FALSE, row |-> -1, col |-> -1, mode |-> "none"]
\* no pure function has been called
NoPure == [fn |-> "none", arg |-> <<>>, done |-> FALSE, threw |-> FALSE, result |-> <<>>]

NoCall == [op |-> "none", target |-> <<>>, baseMidi |-> 0, hand |-> "any",
           maxSuggestions |-> 0, mode |-> "none", input |-> <<>>, output |-> <<>>]

\* The capture fields the constructor sets.  savedHandprints is kept as its
\* length, pendingStarts counts the startHandprintCapture calls suspended at
\* `await midiManager.init()`; padMessage and clicked record, for the session
\* under way, whether a pad message has been handled and which pads were
\* clicked while none had.
NewCapture ==
  [handprintMode |-> FALSE, state |-> "null", captures |-> <<>>, padOffset |-> {},
   sessionCount |-> 0, savedHandprints |-> 0, midiInitialized |-> FALSE,
   pendingStarts |-> 0, padMessage |-> FALSE, clicked |-> {}]
\* localStorage of a new installation: no pattern under 'exquisPatterns', none
\* under 'fingeringPatterns', no recent name; last is the pattern operation
\* made last, with the patterns of 'exquisPatterns' before it
NoPatternOp == [op |-> "none", name |-> <<>>, data |-> "", threw |-> FALSE, before |-> <<>>]
NewPatterns ==
  [exquisPatterns |-> <<>>, fingeringPatterns |-> <<>>, recent |-> <<>>, last |-> NoPatternOp]

\* new MIDIManager(), with the page as it loads: the hold box unchecked, the
\* key and set of the first highlighted pitch-class set, no timer pending and
\* nothing sounding.  noteOffTimers are playNote's timers in the order they
\* were set (one holdDuration: they fire in that order); chordTimers holds,
\* for each playChord call with timers pending, the index of its next timer
\* and the notes still to play.
NewMidi ==
  [selectedOutput |-> FALSE, isHolding |-> FALSE, activeNotes |-> {}, octaveRange |-> 0,
   noteOffTimers |-> <<>>, chordTimers |-> <<>>, sounding |-> {},
   holdToggle |-> FALSE, highlighted |-> {0}, previous |-> {0}]

\* ------------------------------------------------------------ grid harness

GridArgs ==
  {<<d, r, c>> \in Devices \X (0..(ROW_COUNT - 1)) \X ((0 - ColSlack)..(COL_COUNT + ColSlack - 1)) :
     /\ r < DeviceRowCount(d)
     /\ c < DeviceRowLength(d, r) + ColSlack}

GridInit ==
  /\ gridMode = "intervals"
  /\ \E a \in GridArgs : device = a[1] /\ argRow = a[2] /\ argCol = a[3]
  /\ padIndex = NoPadIndex
  /\ rowCol = NoResult
  /\ gpc = "args"
  /\ handprints = <<>>
  /\ call = NoCall
  /\ midi = NewMidi /\ capture = NewCapture /\ patterns = NewPatterns
  /\ pure = NoPure

\* setGridMode(mode) of the legacy grid module -> ExquisDevice.setGridMode
SetGridMode(mode) ==
  /\ mode \in GridModes
  /\ gridMode' = mode
  /\ UNCHANGED <<gridVars, engineVars, pure, appVars>>

\* idx = device.getPadIndex(row, col)
CallGetPadIndex ==
  /\ gpc = "args"
  /\ LET p == DeviceGetPadIndex(device, gridMode, argRow, argCol)
     IN  padIndex' = [ok |-> p.ok, idx |-> p.idx, mode |-> gridMode]
  /\ gpc' = "indexed"
  /\ UNCHANGED <<gridMode, device, argRow, argCol, rowCol, engineVars, pure, appVars>>

\* device.getRowCol(idx)
CallGetRowCol ==
  /\ gpc = "indexed"
  /\ padIndex.ok
  /\ LET rc == DeviceGetRowCol(device, gridMode, padIndex.idx)
     IN  rowCol' = [ok |-> rc.ok, row |-> rc.row, col |-> rc.col, mode |-> gridMode]
  /\ gpc' = "resolved"
  /\ UNCHANGED <<gridMode, device, argRow, argCol, padIndex, engineVars, pure, appVars>>

GridNext ==
  \/ \E m \in GridModes : SetGridMode(m)
  \/ CallGetPadIndex
  \/ CallGetRowCol

SpecGrid == GridInit /\ [][GridNext]_vars

\* ----------------------------------------------------------- engine harness

\* The targets asked for: C major, C minor, C major with a repeated pitch
\* class, and the dyad C-E
MatchTargets == {<<0, 4, 7>>, <<0, 3, 7>>, <<7, 0, 4, 0>>, <<0, 4>>}

\* The synthesizer is asked for C major, for a dyad with a repeat, for
\* nothing, and for a number that is no pitch class
SynthTargets == {<<0, 4, 7>>, <<4, 0, 4>>, <<>>, <<0, 12>>}

BaseMidiPool == {48, 55}
HandArgs == {"any", "left"}
MaxSuggestionsPool == {2, 10}

Stores == {WithIds(hps) : hps \in SeqsUpTo(HandprintPool, MaxHandprints)}

EngineInit ==
  /\ gridMode = "intervals"
  /\ device = "exquis" /\ argRow = 0 /\ argCol = 0
  /\ padIndex = NoPadIndex
  /\ rowCol = NoResult
  /\ gpc = "args"
  /\ handprints \in Stores
  /\ call = NoCall
  /\ midi = NewMidi /\ capture = NewCapture /\ patterns = NewPatterns
  /\ pure = NoPure

\* matches = findChordFingerings(selectedNotes, savedHandprints, baseMidi[, hand])
FindChordFingerings(target, baseMidi, hand) ==
  /\ call.op = "none"
  /\ call' = [op |-> "find", target |-> target, baseMidi |-> baseMidi, hand |-> hand,
              maxSuggestions |-> 0, mode |-> gridMode, input |-> <<>>,
              output |-> findChordFingerings(target, handprints, baseMidi, hand)]
  /\ UNCHANGED <<gridMode, gridVars, handprints, pure, appVars>>

\* ranked = rankFingerings(matches)
RankFingerings ==
  /\ call.op = "find"
  /\ call' = [call EXCEPT !.op = "rank", !.input = call.output,
                          !.output = rankFingerings(call.output)]
  /\ UNCHANGED <<gridMode, gridVars, handprints, pure, appVars>>

\* suggestions = synthesizeFingerings(targetPitchClasses, savedHandprints, baseMidi, hand, n)
SynthesizeFingerings(target, baseMidi, hand, maxSuggestions) ==
  /\ call.op = "none"
  /\ \E r \in {synthesizeFingerings(gridMode, target, handprints, baseMidi, hand, maxSuggestions)} :
         call' = [op |-> "synthesize", target |-> target, baseMidi |-> baseMidi,
                  hand |-> hand, maxSuggestions |-> maxSuggestions, mode |-> gridMode,
                  input |-> r.fingerings, output |-> r.returned]
  /\ UNCHANGED <<gridMode, gridVars, handprints, pure, appVars>>

\* One engine call per behaviour, made under the grid mode set before it
EngineNext ==
  \/ \E m \in GridModes : call.op = "none" /\ SetGridMode(m)
  \/ \E t \in MatchTargets, b \in BaseMidiPool, h \in HandArgs : FindChordFingerings(t, b, h)
  \/ RankFingerings
  \/ \E t \in SynthTargets, b \in BaseMidiPool, h \in Hands, n \in MaxSuggestionsPool :
       SynthesizeFingerings(t, b, h, n)

SpecEngine == EngineInit /\ [][EngineNext]_vars

\* ------------------------------------------------------ pure-function harness

\* A fingering of two pads, the first on pad (0, 0): its span is the distance
\* to the second pad
SpanInputs ==
  {<<[row |-> 0, col |-> 0], [row |-> r, col |-> c]>> :
     r \in 0..(ROW_COUNT - 1), c \in 0..(getRowLength(0) - 1)}

\* The MIDI notes, also below 0
MidiNotes == (0 - MaxSemitones)..127

\* transposePcs(pcs, semitones): C major, one pitch class, no pitch class and a
\* set with a negative number, moved up or down by up to MaxSemitones
TransposeInputs ==
  {<<pcs, semitones>> : pcs \in {{0, 4, 7}, {11}, {}, {0 - 1, 5}},
                        semitones \in (0 - MaxSemitones)..MaxSemitones}

\* getChordPitchClasses(rootPC, quality): every quality of the dictionary and
\* one that is not in it, on roots inside and outside 0..11
ChordInputs ==
  {<<rootPC, quality>> : rootPC \in (0 - MaxSemitones)..MaxSemitones,
                         quality \in DOMAIN CHORD_QUALITIES \cup {"unknown"}}

\* every string of at most n characters of the alphabet
Strings(alphabet, n) == UNION {[1..k -> alphabet] : k \in 0..n}

\* the text of the custom pitch class field
PcStrings == Strings({"1", "3", "-", " ", ",", "a"}, MaxPcStringLen)

\* the text of the chord notation field
Notations == Strings({"C", "B", "b", "#", "m", "7", "9", " "}, MaxNotationLen)

\* device.getMidiNote(row, col, baseMidi) on every valid pad of every device
MidiNoteInputs ==
  {<<dev, row, col, baseMidi>> \in Devices \X (0..(ROW_COUNT - 1)) \X (0..(COL_COUNT - 1))
                                  \X {0, 48, 55} : ValidPos(dev, row, col)}

PureInputs ==
  [fn : {"spanScore"}, arg : SpanInputs]
    \cup [fn : {"getMidiNote"}, arg : MidiNoteInputs]
    \cup [fn : {"midiToPitchClass"}, arg : MidiNotes]
    \cup [fn : {"transposePcs"}, arg : TransposeInputs]
    \cup [fn : {"getChordPitchClasses"}, arg : ChordInputs]
    \cup [fn : {"parseCustomPitchClasses"}, arg : PcStrings]
    \cup [fn : {"parseChordNotation"}, arg : Notations]

\* The function and its argument are drawn first; the action that applies the
\* function fills in the result
PureInit ==
  /\ gridMode = "intervals"
  /\ device = "exquis" /\ argRow = 0 /\ argCol = 0
  /\ padIndex = NoPadIndex
  /\ rowCol = NoResult
  /\ gpc = "args"
  /\ handprints = <<>>
  /\ call = NoCall
  /\ midi = NewMidi /\ capture = NewCapture /\ patterns = NewPatterns
  /\ \E i \in PureInputs :
       pure = [fn |-> i.fn, arg |-> i.arg, done |-> FALSE, threw |-> FALSE, result |-> <<>>]

\* the spanScore that scoreGeometry(fingering) computes
CallSpanScore ==
  /\ pure.fn = "spanScore" /\ ~pure.done
  /\ pure' = [pure EXCEPT !.done = TRUE, !.result = spanScore(SpanSquared(pure.arg))]
  /\ UNCHANGED <<gridMode, gridVars, engineVars, appVars>>

\* midiToPitchClass(midiNote)
CallMidiToPitchClass ==
  /\ pure.fn = "midiToPitchClass" /\ ~pure.done
  /\ pure' = [pure EXCEPT !.done = TRUE, !.result = midiToPitchClass(pure.arg)]
  /\ UNCHANGED <<gridMode, gridVars, engineVars, appVars>>

\* transposePcs(pcs, semitones)
CallTransposePcs ==
  /\ pure.fn = "transposePcs" /\ ~pure.done
  /\ pure' = [pure EXCEPT !.done = TRUE, !.result = transposePcs(pure.arg[1], pure.arg[2])]
  /\ UNCHANGED <<gridMode, gridVars, engineVars, appVars>>

\* getChordPitchClasses(rootPC, quality)
CallGetChordPitchClasses ==
  /\ pure.fn = "getChordPitchClasses" /\ ~pure.done
  /\ \E r \in {getChordPitchClasses(pure.arg[1], pure.arg[2])} :
       pure' = [pure EXCEPT !.done = TRUE, !.threw = r.threw, !.result = r.value]
  /\ UNCHANGED <<gridMode, gridVars, engineVars, appVars>>

\* parseCustomPitchClasses(pcString)
CallParseCustomPitchClasses ==
  /\ pure.fn = "parseCustomPitchClasses" /\ ~pure.done
  /\ pure' = [pure EXCEPT !.done = TRUE, !.result = parseCustomPitchClasses(pure.arg)]
  /\ UNCHANGED <<gridMode, gridVars, engineVars, appVars>>

\* parseChordNotation(notation)
CallParseChordNotation ==
  /\ pure.fn = "parseChordNotation" /\ ~pure.done
  /\ pure' = [pure EXCEPT !.done = TRUE, !.result = parseChordNotation(pure.arg)]
  /\ UNCHANGED <<gridMode, gridVars, engineVars, appVars>>

\* device.getMidiNote(row, col, baseMidi), the hex grid in its intervals layout
CallGetMidiNote ==
  /\ pure.fn = "getMidiNote" /\ ~pure.done
  /\ pure' = [pure EXCEPT !.done = TRUE,
                          !.result = DeviceGetMidiNote(pure.arg[1], gridMode, pure.arg[2],
                                                       pure.arg[3], pure.arg[4])]
  /\ UNCHANGED <<gridMode, gridVars, engineVars, appVars>>

PureNext ==
  \/ CallSpanScore
  \/ CallGetMidiNote
  \/ CallMidiToPitchClass
  \/ CallTransposePcs
  \/ CallGetChordPitchClasses
  \/ CallParseCustomPitchClasses
  \/ CallParseChordNotation

SpecPure == PureInit /\ [][PureNext]_vars

\* -------------------------------------------------------------- MIDI manager

\* noteOn(midiNote): sends 0x90 unless no output is selected or the note is
\* out of range
noteOn(m, midiNote) ==
  IF ~m.selectedOutput \/ midiNote < 0 \/ midiNote > 127 THEN m
  ELSE [m EXCEPT !.sounding = @ \cup {midiNote}]

\* noteOff(midiNote): sends 0x80 under the same conditions
noteOff(m, midiNote) ==
  IF ~m.selectedOutput \/ midiNote < 0 \/ midiNote > 127 THEN m
  ELSE [m EXCEPT !.sounding = @ \ {midiNote}]

\* _getOctaveNotes(midiNote)
RECURSIVE OctaveLoop(_, _, _, _)
OctaveLoop(midiNote, octaveRange, octave, notes) ==
  IF octave > octaveRange THEN notes
  ELSE LET noteUp == midiNote + (12 * octave)
           noteDown == midiNote - (12 * octave)
           up == IF noteUp <= 127 THEN Append(notes, noteUp) ELSE notes
           down == IF noteDown >= 0 THEN Append(up, noteDown) ELSE up
       IN  OctaveLoop(midiNote, octaveRange, octave + 1, down)

getOctaveNotes(midiNote, octaveRange) == OctaveLoop(midiNote, octaveRange, 1, <<midiNote>>)

\* the body of playNote's forEach for one note
PlayOne(m, note) ==
  LET on == noteOn(m, note)
  IN  IF ~on.isHolding THEN [on EXCEPT !.noteOffTimers = Append(@, note)]
      ELSE [on EXCEPT !.activeNotes = @ \cup {note}]

RECURSIVE PlayAll(_, _)
PlayAll(m, notes) ==
  IF notes = <<>> THEN m ELSE PlayAll(PlayOne(m, Head(notes)), Tail(notes))

\* playNote(midiNote)
playNote(m, midiNote) == PlayAll(m, getOctaveNotes(midiNote, m.octaveRange))

\* playChord(midiNotes, 100, null, stagger): one timer per note, index * stagger
\* from now
playChord(m, midiNotes) ==
  IF midiNotes = <<>> THEN m
  ELSE [m EXCEPT !.chordTimers = Append(@, [index |-> 0, notes |-> midiNotes])]

\* releaseAllNotes()
releaseAllNotes(m) ==
  [m EXCEPT !.sounding = IF m.selectedOutput THEN @ \ {n \in m.activeNotes : n >= 0 /\ n <= 127}
                         ELSE @,
            !.activeNotes = {}]

\* enableHold()
enableHold(m) == [m EXCEPT !.isHolding = TRUE, !.activeNotes = {}]

\* disableHold()
disableHold(m) == releaseAllNotes([m EXCEPT !.isHolding = FALSE])

\* settings.baseMidi of a new installation
DefaultBaseMidi == 48

\* the pads sendHighlightedNotes goes through
HighlightPadCount == 39

\* the notes sendHighlightedNotes collects, in pad order
HighlightedNotes(pcs, baseMidi) ==
  SelectSeq([i \in 1..HighlightPadCount |-> baseMidi + (i - 1)], LAMBDA n : (n % 12) \in pcs)

\* sendHighlightedNotes()
sendHighlightedNotes(m) == playChord(m, HighlightedNotes(m.highlighted, DefaultBaseMidi))

\* updateMIDIHoldIfActive()
updateMIDIHoldIfActive(m) ==
  IF m.holdToggle /\ m.isHolding THEN sendHighlightedNotes(releaseAllNotes(m)) ELSE m

\* The pads clicked on the grid play these notes
PlayedNotes == {60, 64}

\* The pitch-class sets chosen with the key and set menus
PcsPool == {{0}, {7}}

NoteOffsPending(m) == {m.noteOffTimers[i] : i \in 1..Len(m.noteOffTimers)}

\* ----------------------------------------------------------- MIDI harness

\* selectOutputDevice(deviceId) with the id of an output that exists
SelectOutputDevice ==
  /\ ~midi.selectedOutput
  /\ midi' = [midi EXCEPT !.selectedOutput = TRUE]
  /\ UNCHANGED <<gridMode, gridVars, engineVars, pure, capture, patterns>>

\* midiManager.playNote(midiNote)
PlayNote(midiNote) ==
  /\ midi.isHolding \/ Len(midi.noteOffTimers) < MaxPendingNoteOffs
  /\ midi' = playNote(midi, midiNote)
  /\ UNCHANGED <<gridMode, gridVars, engineVars, pure, capture, patterns>>

\* midiManager.enableHold()
EnableHold ==
  /\ midi' = enableHold(midi)
  /\ UNCHANGED <<gridMode, gridVars, engineVars, pure, capture, patterns>>

\* midiManager.disableHold()
DisableHold ==
  /\ midi' = disableHold(midi)
  /\ UNCHANGED <<gridMode, gridVars, engineVars, pure, capture, patterns>>

\* midiManager.releaseAllNotes()
ReleaseAllNotes ==
  /\ midi' = releaseAllNotes(midi)
  /\ UNCHANGED <<gridMode, gridVars, engineVars, pure, capture, patterns>>

\* the timer playNote set fires: noteOff(note)
NoteOffTimerFires ==
  /\ midi.noteOffTimers # <<>>
  /\ midi' = [noteOff(midi, Head(midi.noteOffTimers)) EXCEPT !.noteOffTimers = Tail(@)]
  /\ UNCHANGED <<gridMode, gridVars, engineVars, pure, capture, patterns>>

AppInit ==
  /\ gridMode = "intervals"
  /\ device = "exquis" /\ argRow = 0 /\ argCol = 0
  /\ padIndex = NoPadIndex
  /\ rowCol = NoResult
  /\ gpc = "args"
  /\ handprints = <<>>
  /\ call = NoCall
  /\ pure = NoPure
  /\ midi = NewMidi /\ capture = NewCapture /\ patterns = NewPatterns

\* Any interleaving of playNote, enableHold, disableHold and releaseAllNotes
\* with the note-off timers
MidiNext ==
  \/ SelectOutputDevice
  \/ \E n \in PlayedNotes : PlayNote(n)
  \/ EnableHold
  \/ DisableHold
  \/ ReleaseAllNotes
  \/ NoteOffTimerFires

\* A timer that is due fires
SpecMidi == AppInit /\ [][MidiNext]_vars /\ WF_vars(NoteOffTimerFires)

\* the change handler of the hold box
HoldToggleChange ==
  /\ midi.holdToggle \/ Len(midi.chordTimers) < MaxPendingChords
  /\ midi' = IF ~midi.holdToggle
             THEN sendHighlightedNotes(enableHold([midi EXCEPT !.holdToggle = TRUE]))
             ELSE disableHold([midi EXCEPT !.holdToggle = FALSE])
  /\ UNCHANGED <<gridMode, gridVars, engineVars, pure, capture, patterns>>

\* the click handler of "Send highlighted"
SendHighlightedClick ==
  /\ Len(midi.chordTimers) < MaxPendingChords
  /\ midi' = sendHighlightedNotes(midi)
  /\ UNCHANGED <<gridMode, gridVars, engineVars, pure, capture, patterns>>

\* the change handler of the key and set menus, which change the highlighted
\* pitch-class set
PcsChange(pcs) ==
  /\ pcs # midi.highlighted
  /\ Len(midi.chordTimers) < MaxPendingChords
  /\ midi' = updateMIDIHoldIfActive([midi EXCEPT !.highlighted = pcs, !.previous = midi.highlighted])
  /\ UNCHANGED <<gridMode, gridVars, engineVars, pure, capture, patterns>>

\* Timer q of the pending playChord calls is the next of its call; a timer of
\* an earlier call with the same or a smaller index is due before it.  How
\* late a due timer runs is up to the browser, so the order is otherwise open.
ChordTimerDue(q) ==
  /\ q \in 1..Len(midi.chordTimers)
  /\ \A p \in 1..(q - 1) : midi.chordTimers[p].index > midi.chordTimers[q].index

\* the calls that still have a timer pending once timer q has fired
AfterChordTimer(timers, q) ==
  LET t == timers[q]
      rest == [t EXCEPT !.index = @ + 1, !.notes = Tail(@)]
  IN  IF rest.notes = <<>>
      THEN SubSeq(timers, 1, q - 1) \o SubSeq(timers, q + 1, Len(timers))
      ELSE [timers EXCEPT ![q] = rest]

\* a timer playChord set fires: playNote(note, velocity, duration)
ChordTimerFires(q) ==
  /\ ChordTimerDue(q)
  /\ midi.isHolding \/ Len(midi.noteOffTimers) < MaxPendingNoteOffs
  /\ midi' = [playNote(midi, Head(midi.chordTimers[q].notes))
                EXCEPT !.chordTimers = AfterChordTimer(midi.chordTimers, q)]
  /\ UNCHANGED <<gridMode, gridVars, engineVars, pure, capture, patterns>>

\* The hold box, the key and set menus and the send button, with the timers
HoldNext ==
  \/ SelectOutputDevice
  \/ HoldToggleChange
  \/ SendHighlightedClick
  \/ \E pcs \in PcsPool : PcsChange(pcs)
  \/ \E q \in 1..MaxPendingChords : ChordTimerFires(q)
  \/ NoteOffTimerFires

SpecHold == AppInit /\ [][HoldNext]_vars

\* --------------------------------------------------------- handprint capture

\* a capture loop without the duplicate test
NeverCaptured(captures, idx) == FALSE

\* this.handprintCaptures.some(cap => cap.padIndex === padIndex)
AlreadyCaptured(captures, idx) == \E i \in 1..Len(captures) : captures[i].padIndex = idx

\* finishHandprintCapture()
finishHandprintCapture(c) == [c EXCEPT !.state = "rating"]

\* the push of handleHandprintPadID and handleHandprintClick, with the call
\* of finishHandprintCapture on the fifth position
PushCapture(c, row, col, idx) ==
  LET pushed == [c EXCEPT !.captures = Append(@, [row |-> row, col |-> col, padIndex |-> idx,
                                                   midiNote |-> DefaultBaseMidi + idx,
                                                   finger |-> Len(c.captures) + 1])]
  IN  IF Len(pushed.captures) = 5 THEN finishHandprintCapture(pushed) ELSE pushed

\* handleHandprintPadID(padID) under the grid mode `mode`
handleHandprintPadID(c, mode, padID) ==
  IF c.state = "waiting_basenote"
  THEN [c EXCEPT !.padOffset = {padID}, !.state = "capturing_fingers"]
  ELSE IF c.state # "capturing_fingers" THEN c
  ELSE IF Len(c.captures) >= 5 THEN c
  ELSE LET actualPadIndex == padID - (CHOOSE o \in c.padOffset : TRUE)
           rc == ExquisGetRowCol(mode, actualPadIndex)
       IN  IF AlreadyCaptured(c.captures, actualPadIndex) THEN c
           ELSE IF ~rc.ok THEN c
           ELSE PushCapture(c, rc.row, rc.col, actualPadIndex)

\* handleHandprintClick(row, col) under the grid mode `mode`
handleHandprintClick(c, mode, row, col) ==
  IF c.state # "capturing_fingers" THEN c
  ELSE IF Len(c.captures) >= 5 THEN c
  ELSE LET idx == ExquisGetPadIndex(mode, row, col).idx
       IN  IF AlreadyCaptured(c.captures, idx) THEN c
           ELSE PushCapture(c, row, col, idx)

\* startHandprintCapture() from "Start capture session" on
BeginSession(c) ==
  [c EXCEPT !.handprintMode = TRUE, !.state = "waiting_basenote", !.captures = <<>>,
            !.padOffset = {}, !.sessionCount = 0, !.padMessage = FALSE, !.clicked = {}]

\* the grid mode startHandprintCapture sets
BeginSessionGridMode(mode) == "chromatic"

\* stopHandprintSession()
stopHandprintSession(c) ==
  [c EXCEPT !.handprintMode = FALSE, !.state = "null", !.captures = <<>>, !.sessionCount = 0]

\* a stopHandprintSession that leaves the grid mode alone
StopSessionGridModeKept(mode) == mode

\* the grid mode stopHandprintSession sets
StopSessionGridMode(mode) == "intervals"

\* saveHandprint(comfortRating)
saveHandprint(c) ==
  [c EXCEPT !.savedHandprints = @ + 1, !.sessionCount = @ + 1,
            !.captures = <<>>, !.state = "capturing_fingers"]

\* discardHandprint()
discardHandprint(c) == [c EXCEPT !.captures = <<>>, !.state = "capturing_fingers"]

\* The pads clicked on the on-screen grid
ClickedPads == {<<0, 0>>, <<0, 1>>, <<0, 2>>, <<1, 0>>, <<1, 1>>}

\* The pad ids the device sends in Developer Mode
PadIDs == {0, 1, 8}

\* ------------------------------------------------------------ capture harness

\* click on "Start Capture" / "Stop Capture": startHandprintCapture() up to its
\* end or up to `await midiManager.init()`
StartCaptureClick ==
  /\ IF capture.handprintMode
     THEN /\ capture' = stopHandprintSession(capture)
          /\ gridMode' = StopSessionGridMode(gridMode)
     ELSE IF capture.midiInitialized
     THEN /\ capture' = BeginSession(capture)
          /\ gridMode' = BeginSessionGridMode(gridMode)
     ELSE /\ capture.pendingStarts < MaxPendingStarts
          /\ capture' = [capture EXCEPT !.pendingStarts = @ + 1]
          /\ UNCHANGED gridMode
  /\ UNCHANGED <<gridVars, engineVars, pure, midi, patterns>>

\* midiManager.init() settles (initialized = TRUE: it resolved; FALSE: it
\* rejected and the catch block ran) and startHandprintCapture goes on
StartCaptureResumes(initialized) ==
  /\ capture.pendingStarts > 0
  /\ capture' = BeginSession([capture EXCEPT !.pendingStarts = @ - 1,
                                             !.midiInitialized = @ \/ initialized])
  /\ gridMode' = BeginSessionGridMode(gridMode)
  /\ UNCHANGED <<gridVars, engineVars, pure, midi, patterns>>

\* a note-on of a pad reaches the handler startHandprintCapture installed
PadMessage(padID) ==
  /\ capture.handprintMode /\ capture.midiInitialized
  /\ capture' = [handleHandprintPadID(capture, gridMode, padID) EXCEPT !.padMessage = TRUE,
                                                                       !.clicked = {}]
  /\ UNCHANGED <<gridMode, gridVars, engineVars, pure, midi, patterns>>

\* a click on a pad of the on-screen grid during a session
PadClick(row, col) ==
  /\ capture.handprintMode
  /\ capture' = [handleHandprintClick(capture, gridMode, row, col) EXCEPT
                   !.clicked = IF capture.padMessage THEN @ ELSE @ \cup {<<row, col>>}]
  /\ UNCHANGED <<gridMode, gridVars, engineVars, pure, midi, patterns>>

\* click on "Save Handprint", a button of the rating panel
SaveHandprintClick ==
  /\ capture.state = "rating"
  /\ capture.savedHandprints < MaxSavedHandprints
  /\ capture' = saveHandprint(capture)
  /\ UNCHANGED <<gridMode, gridVars, engineVars, pure, midi, patterns>>

\* click on "Discard", a button of the rating panel
DiscardHandprintClick ==
  /\ capture.state = "rating"
  /\ capture' = discardHandprint(capture)
  /\ UNCHANGED <<gridMode, gridVars, engineVars, pure, midi, patterns>>

CaptureNext ==
  \/ StartCaptureClick
  \/ \E initialized \in BOOLEAN : StartCaptureResumes(initialized)
  \/ \E id \in PadIDs : PadMessage(id)
  \/ \E pad \in ClickedPads : PadClick(pad[1], pad[2])
  \/ SaveHandprintClick
  \/ DiscardHandprintClick

SpecCapture == AppInit /\ [][CaptureNext]_vars

\* A settled midiManager.init() lets startHandprintCapture go on
SpecCaptureFair ==
  SpecCapture /\ WF_vars(\E initialized \in BOOLEAN : StartCaptureResumes(initialized))

\* ------------------------------------------------------------ pattern store

\* A name is the sequence of its parts: <<"A">> is "A", <<"A", 1>> is "A (1)"
\* and <<"A", 1, 1>> is "A (1) (1)".  The stored objects are plain objects, so
\* a name of Object.prototype is found on every one of them.
InheritedNames == {<<"toString">>}

\* null, and what patterns[name] gives for a name of Object.prototype
Null == "null"
Inherited == "inherited"

\* getAllPatterns()
getAllPatterns(st) == st.exquisPatterns

\* loadPattern(name): patterns[name] || null
loadPattern(st, name) ==
  IF name \in DOMAIN getAllPatterns(st) THEN getAllPatterns(st)[name]
  ELSE IF name \in InheritedNames THEN Inherited
  ELSE Null

\* getPatternNames(), as the set of the names it lists
getPatternNames(st) == DOMAIN getAllPatterns(st)

\* recent.filter(n => n !== name)
RecentWithout(recent, name) == SelectSeq(recent, LAMBDA n : n # name)

\* addToRecent(name)
addToRecent(recent, name) ==
  LET added == <<name>> \o RecentWithout(recent, name)
  IN  SubSeq(added, 1, Min(Len(added), 10))

\* savePattern(name, patternData); the savedAt stamp is left out
savePattern(st, name, patternData) ==
  [st EXCEPT !.exquisPatterns = (name :> patternData) @@ @,
             !.recent = addToRecent(@, name)]

\* deletePattern(name)
deletePattern(st, name) ==
  IF name \in DOMAIN getAllPatterns(st)
  THEN [st EXCEPT !.exquisPatterns = [n \in (DOMAIN @) \ {name} |-> @[n]],
                  !.recent = RecentWithout(@, name)]
  ELSE st

\* an import that saves under the name of the file
NameAsGiven(st, base, name, counter) == name

\* the loop of importPattern: while (loadPattern(name)) name = `${data.name} (${counter++})`
RECURSIVE UniqueName(_, _, _, _)
UniqueName(st, base, name, counter) ==
  IF loadPattern(st, name) # Null
  THEN UniqueName(st, base, Append(base, counter), counter + 1)
  ELSE name

\* importPattern(jsonString) for the parsed `data`: the name it returns, and
\* threw = TRUE for 'Import failed'
importPattern(st, data) ==
  IF data.version = "" \/ data.name = <<>> \/ data.pattern = ""
  THEN [threw |-> TRUE, name |-> <<>>, store |-> st]
  ELSE LET name == UniqueName(st, data.name, data.name, 1)
       IN  [threw |-> FALSE, name |-> name, store |-> savePattern(st, name, data.pattern)]

\* saveSuggestionAsPattern(): patterns[patternName] = patternData under the key
\* 'fingeringPatterns'
saveSuggestionAsPattern(st, patternName, patternData) ==
  [st EXCEPT !.fingeringPatterns = (patternName :> patternData) @@ @]

\* The names typed into the pattern name field
TypedNames == {<<"A">>, <<"A", 1>>, <<"C major">>}

\* The pattern data saved
PatternData == {"P", "Q"}

\* The files imported: well-formed ones, one with no version and one with no pattern
ImportedFiles ==
  {[version |-> "1.0", name |-> n, pattern |-> d] :
     n \in {<<"A">>, <<"B">>, <<"toString">>}, d \in PatternData}
  \cup {[version |-> "", name |-> <<"A">>, pattern |-> "P"],
        [version |-> "1.0", name |-> <<"B">>, pattern |-> ""]}

\* The names saveSuggestionAsPattern builds from the key and the set
SuggestionNames == {<<"C major">>}

\* ----------------------------------------------------------- pattern harness

\* saveCurrentPattern() with a name typed
SaveCurrentPattern(name, patternData) ==
  /\ name \in DOMAIN patterns.exquisPatterns
       \/ Cardinality(DOMAIN patterns.exquisPatterns) < MaxPatterns
  /\ patterns' = [savePattern(patterns, name, patternData) EXCEPT
                    !.last = [op |-> "save", name |-> name, data |-> patternData,
                              threw |-> FALSE, before |-> patterns.exquisPatterns]]
  /\ UNCHANGED <<gridMode, gridVars, engineVars, pure, midi, capture>>

\* deleteCurrentPattern() with a pattern selected in the list
DeleteCurrentPattern(name) ==
  /\ name \in getPatternNames(patterns)
  /\ patterns' = [deletePattern(patterns, name) EXCEPT
                    !.last = [op |-> "delete", name |-> name, data |-> "",
                              threw |-> FALSE, before |-> patterns.exquisPatterns]]
  /\ UNCHANGED <<gridMode, gridVars, engineVars, pure, midi, capture>>

\* name = importPattern(jsonString)
ImportPattern(data) ==
  /\ Cardinality(DOMAIN patterns.exquisPatterns) < MaxPatterns
  /\ \E r \in {importPattern(patterns, data)} :
       patterns' = [r.store EXCEPT
                      !.last = [op |-> "import", name |-> r.name, data |-> data.pattern,
                                threw |-> r.threw, before |-> patterns.exquisPatterns]]
  /\ UNCHANGED <<gridMode, gridVars, engineVars, pure, midi, capture>>

\* click on "Save as pattern" with a suggestion on display
SaveSuggestionAsPattern(patternName, patternData) ==
  /\ patterns' = [saveSuggestionAsPattern(patterns, patternName, patternData) EXCEPT
                    !.last = [op |-> "saveSuggestion", name |-> patternName,
                              data |-> patternData, threw |-> FALSE,
                              before |-> patterns.exquisPatterns]]
  /\ UNCHANGED <<gridMode, gridVars, engineVars, pure, midi, capture>>

PatternNext ==
  \/ \E n \in TypedNames, d \in PatternData : SaveCurrentPattern(n, d)
  \/ \E n \in TypedNames : DeleteCurrentPattern(n)
  \/ \E f \in ImportedFiles : ImportPattern(f)
  \/ \E n \in SuggestionNames, d \in PatternData : SaveSuggestionAsPattern(n, d)

SpecPatterns == AppInit /\ [][PatternNext]_vars

Resolved == gpc = "resolved"

\* C3: on the square grid (any layout mode), and on the hex grid when both
\* calls run in chromatic mode, rowCol(padIndex(row, col)) = (row, col) for
\* every valid (row, col).
C3_RoundTrip ==
  (/\ Resolved
   /\ ValidPos(device, argRow, argCol)
   /\ (IsSquare(device) \/ (padIndex.mode = "chromatic" /\ rowCol.mode = "chromatic")))
  => (rowCol.ok /\ rowCol.row = argRow /\ rowCol.col = argCol)

\* A hex pad above row 0 round-trips in chromatic mode (in intervals mode
\* index 22 of row 4 would resolve elsewhere).
C3_Witness ==
  /\ Resolved /\ device = "exquis"
  /\ padIndex.mode = "chromatic" /\ rowCol.mode = "chromatic"
  /\ argRow = 4 /\ argCol = 0 /\ padIndex.idx = 22
  /\ rowCol.ok /\ rowCol.row = 4 /\ rowCol.col = 0

\* C4: in hex intervals mode, for every valid (row, col), rowCol(padIndex(row,
\* col)) returns without error a valid (row', col') with the same pad index,
\* even when row' differs from row.
C4_AmbiguityContained ==
  (/\ Resolved /\ device = "exquis"
   /\ ValidPos(device, argRow, argCol)
   /\ padIndex.mode = "intervals" /\ rowCol.mode = "intervals")
  => (/\ rowCol.ok
      /\ ValidPos("exquis", rowCol.row, rowCol.col)
      /\ ROW_START_INTERVALS[rowCol.row] + rowCol.col = padIndex.idx)

\* Pad (1, 0) has index 4 and resolves to (0, 4): another row, same index.
C4_Witness ==
  /\ Resolved /\ device = "exquis"
  /\ padIndex.mode = "intervals" /\ rowCol.mode = "intervals"
  /\ argRow = 1 /\ argCol = 0
  /\ rowCol.ok /\ rowCol.row = 0 /\ rowCol.col = 4

\* C5: in hex intervals mode rowCol(idx) returns the lowest-numbered row whose
\* column range contains idx (no lower row contains it), and throws exactly
\* when no row contains idx.
C5_LowestRow ==
  (Resolved /\ device = "exquis" /\ rowCol.mode = "intervals")
  => (/\ rowCol.ok <=> RowsContaining("intervals", padIndex.idx) # {}
      /\ rowCol.ok =>
            /\ rowCol.row \in RowsContaining("intervals", padIndex.idx)
            /\ \A r \in RowsContaining("intervals", padIndex.idx) : rowCol.row <= r
            /\ rowCol.col = padIndex.idx - ROW_START_INTERVALS[rowCol.row])

\* Index 8 lies in rows 1 and 2 (columns 4 and 1); row 1 is returned.
C5_Witness ==
  /\ Resolved /\ device = "exquis" /\ rowCol.mode = "intervals"
  /\ padIndex.idx = 8
  /\ RowsContaining("intervals", 8) = {1, 2}
  /\ rowCol.ok /\ rowCol.row = 1 /\ rowCol.col = 4

Outputs == {call.output[i] : i \in 1..Len(call.output)}

\* The pitch classes sounded by a fingering's pads
SoundedPitchClasses(fingering) ==
  {fingering.positions[k].midiNote % 12 : k \in 1..Len(fingering.positions)}

\* Two fingerings are the same subset of the same handprint
SameFingering(a, b) == a.handprintId = b.handprintId /\ a.positions = b.positions

\* C1: every fingering returned by findChordFingerings for target T sounds
\* exactly the pitch classes of T: none outside T and none of T missing.
C1_ExactMatch ==
  (call.op = "find")
  => \A f \in Outputs :
        /\ SoundedPitchClasses(f) = Range(call.target)
        /\ \A k \in 1..Len(f.positions) : f.positions[k].pitchClass \in Range(call.target)

\* One five-finger capture C E G C E asked for C major: 9 of its 16 subsets
\* are returned, the 7 without G or without C or without E are not.
C1_Witness ==
  /\ call.op = "find" /\ call.target = <<0, 4, 7>>
  /\ Len(handprints) = 1 /\ Len(handprints[1].positions) = 5
  /\ Len(call.output) = 9

SubScoreFields == {"comfortScore", "geometricScore", "ergonomicScore"}

C8_RankedPermutationSorted ==
  (call.op = "rank")
  => (/\ Len(call.output) = Len(call.input)
      /\ \A i \in 1..Len(call.input) :
            Cardinality({j \in 1..Len(call.output) : SameFingering(call.output[j], call.input[i])})
              = Cardinality({k \in 1..Len(call.input) : SameFingering(call.input[k], call.input[i])})
      /\ \A j \in 1..Len(call.output) :
            /\ call.output[j] = scoreFingering(call.output[j])
            /\ call.output[j].comfortScore # Undefined
      /\ \A j \in 1..(Len(call.output) - 1) :
            call.output[j].score >= call.output[j + 1].score)

\* A ranking that had to move the first input down.
C8_Witness ==
  /\ call.op = "rank" /\ Len(call.output) >= 2
  /\ ~SameFingering(call.output[1], call.input[1])
  /\ call.output[1].score > call.output[Len(call.output)].score

\* The place of the j-th ranked fingering in the input list
InputIndex(j) ==
  CHOOSE i \in 1..Len(call.input) : SameFingering(call.input[i], call.output[j])

\* C9: two fingerings with equal total scores leave rankFingerings in the
\* relative order they had in the input list.
C9_StableTies ==
  (call.op = "rank")
  => \A j1 \in 1..Len(call.output), j2 \in 1..Len(call.output) :
        (j1 < j2 /\ call.output[j1].score = call.output[j2].score)
        => InputIndex(j1) < InputIndex(j2)

\* A tie between two fingerings, with a better one that came later in the input.
C9_Witness ==
  /\ call.op = "rank"
  /\ \E j1 \in 1..Len(call.output), j2 \in 1..Len(call.output), j3 \in 1..Len(call.output) :
       /\ j3 < j1 /\ j1 < j2
       /\ call.output[j1].score = call.output[j2].score
       /\ call.output[j3].score > call.output[j1].score
       /\ InputIndex(j3) > InputIndex(j2)

\* C10 as stated: a candidate derived from a handprint rated r in [0, 100],
\* r = 0 included, carries comfort rating r out of the matcher and comfort
\* score r out of the scorer.
C10_Original ==
  (call.op \in {"find", "rank"})
  => \A f \in Outputs :
        /\ f.comfortRating = handprints[f.handprintId].comfortRating
        /\ call.op = "rank" => f.comfortScore = handprints[f.handprintId].comfortRating

\* the pitch classes of a stored handprint's positions, one per position
HandprintPitchClasses(hp) ==
  [k \in 1..Len(hp.positions) |-> PosMidiNote(hp.positions[k], call.baseMidi) % 12]

\* the store is one handprint of three positions, one each on the pitch
\* classes 0, 4 and 7, rated 80, and the call asked for {0, 4, 7} without
\* excluding the handprint's hand
TriadScenario ==
  /\ call.op = "find"
  /\ Len(handprints) = 1
  /\ Len(handprints[1].positions) = 3
  /\ Range(HandprintPitchClasses(handprints[1])) = {0, 4, 7}
  /\ handprints[1].comfortRating = 80
  /\ Range(call.target) = {0, 4, 7}
  /\ call.hand \in {"any", handprints[1].hand}

Synthesized == call.op = "synthesize"

\* position p of a candidate is a pad of rows 0..5 of the grid, indexed under
\* the grid mode of the call
OnScannedPad(p) ==
  /\ p.row \in 0..5
  /\ p.col \in 0..(getRowLength(p.row) - 1)
  /\ p.padIndex = GetRowStart(call.mode)[p.row] + p.col

\* C12: every candidate the synthesizer returns has exactly one position for
\* each distinct target pitch class and no other position; each position is a
\* pad of rows 0..5 whose pitch class (baseMidi + padIndex) mod 12 is that
\* target pitch class.
C12_OnePadPerPitchClass ==
  Synthesized =>
    \A f \in Outputs :
      /\ Len(f.positions) = Cardinality(Range(call.target))
      /\ \A pc \in Range(call.target) :
           Cardinality({k \in 1..Len(f.positions) :
                          (call.baseMidi + f.positions[k].padIndex) % 12 = pc}) = 1
      /\ \A k \in 1..Len(f.positions) :
           /\ OnScannedPad(f.positions[k])
           /\ (call.baseMidi + f.positions[k].padIndex) % 12 \in Range(call.target)

\* candidates were returned for a target that names a pitch class twice
C12_Witness ==
  /\ Synthesized
  /\ call.target = <<4, 0, 4>>
  /\ Len(call.output) >= 2
  /\ \A f \in Outputs : Len(f.positions) = 2

\* the store has no handprint of the hand asked for: extractPatterns gives null
NoPatternsForHand == \A i \in 1..Len(handprints) : handprints[i].hand # call.hand

Generated == Range(call.input)

\* C14: the synthesizer returns at most maxSuggestions candidates, in
\* non-increasing score order, all of them generated candidates, and no
\* generated candidate that was left out has a score strictly greater than a
\* returned one.
C14_TopSuggestions ==
  Synthesized =>
    /\ Len(call.output) <= call.maxSuggestions
    /\ \A i \in 1..(Len(call.output) - 1) : call.output[i].score >= call.output[i + 1].score
    /\ Outputs \subseteq Generated
    /\ \A g \in Generated \ Outputs : \A f \in Outputs : g.score <= f.score

\* two candidates were returned and a generated one with a lower score was not
C14_Witness ==
  /\ Synthesized
  /\ call.maxSuggestions = 2
  /\ Len(call.output) = 2
  /\ \E g \in Generated \ Outputs : g.score < call.output[2].score

\* C15 as stated: for an empty target the synthesizer returns the empty list,
\* not even one candidate without positions.
C15_Original ==
  (Synthesized /\ call.target = <<>>) => call.output = <<>>

RECURSIVE PowerOfThree(_)
PowerOfThree(k) == IF k = 0 THEN 1 ELSE 3 * PowerOfThree(k - 1)

\* the pads that the generated candidates use for pitch class pc
PadsUsedFor(pc) ==
  {p.padIndex : p \in {q \in UNION {Range(f.positions) : f \in Generated} :
                         (call.baseMidi + q.padIndex) % 12 = pc}}

\* C17: for a target of k distinct pitch classes the synthesizer tries at most
\* 3 pads per pitch class and generates at most 3^k candidates (27 for a
\* triad, at most 243 for k <= 5); the enumeration ends.
C17_BoundedEnumeration ==
  Synthesized =>
    LET k == Cardinality(Range(call.target))
    IN  /\ Len(call.input) <= PowerOfThree(k)
        /\ k <= 5 => Len(call.input) <= 243
        /\ \A pc \in Range(call.target) : Cardinality(PadsUsedFor(pc)) <= 3

\* a triad was asked for and all 27 combinations of 3 pads per pitch class
\* were generated
C17_Witness ==
  /\ Synthesized
  /\ call.target = <<0, 4, 7>>
  /\ Len(call.input) = 27

\* ------------------------------------------------------ pure-function claims

SpanScoreOf(positions) == spanScore(SpanSquared(positions))

Returned(fn) == pure.fn = fn /\ pure.done /\ ~pure.threw

\* C18 as stated: every pitch class that parseCustomPitchClasses,
\* midiToPitchClass, transposePcs and getChordPitchClasses produce lies in
\* 0..11, whatever the sign and the size of the integers given.
C18_Original ==
  /\ Returned("parseCustomPitchClasses") => pure.result \subseteq 0..11
  /\ Returned("midiToPitchClass") => pure.result \in 0..11
  /\ Returned("transposePcs") => pure.result \subseteq 0..11
  /\ Returned("getChordPitchClasses") => Range(pure.result) \subseteq 0..11

\* the comma-separated tokens of the string that are integers, as numbers
IntegerTokens(pcString) ==
  LET tokens == Split(pcString, <<>>)
  IN  {ToNumber(tokens[i]).n :
         i \in {k \in 1..Len(tokens) : Trim(tokens[k]) # <<>> /\ ~ToNumber(tokens[k]).nan}}

\* C19 as stated: parseCustomPitchClasses returns exactly the set of n mod 12
\* for the comma-separated tokens that are integers n; an empty, blank or
\* non-numeric token adds no element and raises no error.
C19_Original ==
  (pure.fn = "parseCustomPitchClasses" /\ pure.done) =>
    /\ ~pure.threw
    /\ pure.result = {n % 12 : n \in IntegerTokens(pure.arg)}

\* the root names that the trimmed notation t starts with
RootPrefixes(t) ==
  {r \in DOMAIN NOTE_TO_PC : Len(r) <= Len(t) /\ SubSeq(t, 1, Len(r)) = r}

\* the longest of them
LongestRoot(t) ==
  CHOOSE r \in RootPrefixes(t) : \A q \in RootPrefixes(t) : Len(q) <= Len(r)

\* the qualities whose pattern accepts the text
QualitiesAccepting(text) ==
  {QUALITY_PATTERNS[k].quality : k \in {j \in 1..Len(QUALITY_PATTERNS) :
                                          text \in QUALITY_PATTERNS[j].regex}}

\* C20: for every input string parseChordNotation returns without throwing,
\* either null or a pair of a root pitch class in 0..11 and a chord quality of
\* the dictionary.  It returns null when the trimmed string starts with no
\* root name, and when what follows the (longest) root name is not empty and
\* is accepted by no quality pattern; a root name alone is the major triad on
\* that root, and otherwise the quality is that of a pattern accepting the
\* remainder.
C20_ParseTotal ==
  (pure.fn = "parseChordNotation" /\ pure.done) =>
    LET t == Trim(pure.arg)
        r == pure.result
    IN  /\ ~pure.threw
        /\ r.isNull \/ (r.rootPC \in 0..11 /\ r.quality \in DOMAIN CHORD_QUALITIES)
        /\ RootPrefixes(t) = {} => r.isNull
        /\ RootPrefixes(t) # {} =>
             LET root == LongestRoot(t)
                 rest == SubSeq(t, Len(root) + 1, Len(t))
             IN  /\ rest = <<>> =>
                      r = [isNull |-> FALSE, rootPC |-> NOTE_TO_PC[root], quality |-> "major"]
                 /\ (rest # <<>> /\ QualitiesAccepting(rest) = {}) => r.isNull
                 /\ (rest # <<>> /\ QualitiesAccepting(rest) # {}) =>
                      /\ ~r.isNull
                      /\ r.rootPC = NOTE_TO_PC[root]
                      /\ r.quality \in QualitiesAccepting(rest)

\* "Bbmb" was parsed: the root B flat is valid, the remainder "mb" is no
\* quality, and the result is null
C20_Witness ==
  /\ pure.fn = "parseChordNotation" /\ pure.done
  /\ pure.arg = <<"B", "b", "m", "b">>
  /\ pure.result.isNull

\* C21 as stated: on every square-grid device getMidiNote(row, col, baseMidi)
\* is baseMidi + row * 5 + col for every valid (row, col): each row is tuned a
\* perfect fourth above the row below.
C21_Original ==
  (Returned("getMidiNote") /\ IsSquare(pure.arg[1])) =>
    pure.result = pure.arg[4] + pure.arg[2] * 5 + pure.arg[3]

\* C22 as stated: the result of an engine call depends only on its arguments,
\* whatever happened before it, a change of the process-wide grid layout mode
\* included: the call returns what the same call returns in a process where
\* nothing was done before it (the layout mode still "intervals").
C22_Original ==
  /\ call.op = "find" =>
       call.output = findChordFingerings(call.target, handprints, call.baseMidi, call.hand)
  /\ call.op = "rank" => call.output = rankFingerings(call.input)
  /\ Synthesized =>
       call.output = synthesizeFingerings("intervals", call.target, handprints, call.baseMidi,
                                          call.hand, call.maxSuggestions).returned

\* C23 as stated: in every interleaving of playNote, enableHold and
\* disableHold, a note-on is followed by a note-off for the same note: a note
\* that sounds with its note-off timer pending is silenced once the timer
\* fires, and when hold mode ends (disableHold) no note is left sounding
\* except those whose note-off timer is still pending.
C23_Original ==
  /\ [][(midi.isHolding /\ ~midi'.isHolding) =>
          \A n \in midi'.sounding : n \in NoteOffsPending(midi')]_vars
  /\ \A n \in PlayedNotes :
       (n \in midi.sounding /\ n \in NoteOffsPending(midi)) ~> (n \notin midi.sounding)

\* C24 as stated: in hold mode, once every pending timer has fired after a
\* change of the highlighted pitch-class set, the notes the MIDI manager holds
\* are exactly the notes of the new set, and no note that belongs only to the
\* previous set is sounding.
C24_Original ==
  (/\ midi.holdToggle /\ midi.isHolding
   /\ midi.highlighted # midi.previous
   /\ midi.chordTimers = <<>> /\ midi.noteOffTimers = <<>>)
  => LET new == Range(HighlightedNotes(midi.highlighted, DefaultBaseMidi))
         old == Range(HighlightedNotes(midi.previous, DefaultBaseMidi))
     IN  /\ midi.activeNotes = new
         /\ midi.sounding \cap (old \ new) = {}

\* C25: at every point of a capture session the capture holds at most five
\* positions, no two of them on the same pad, and the i-th position carries
\* finger i.
C25_CaptureShape ==
  /\ Len(capture.captures) <= 5
  /\ \A i, j \in 1..Len(capture.captures) :
       i # j => /\ capture.captures[i].padIndex # capture.captures[j].padIndex
                /\ <<capture.captures[i].row, capture.captures[i].col>> #
                   <<capture.captures[j].row, capture.captures[j].col>>
  /\ \A i \in 1..Len(capture.captures) : capture.captures[i].finger = i

\* Five positions have been captured, one of them by a pad message on a pad that is never clicked
C25_Witness ==
  /\ capture.state = "rating"
  /\ Len(capture.captures) = 5
  /\ capture.padMessage
  /\ \E i \in 1..5 : <<capture.captures[i].row, capture.captures[i].col>> \notin ClickedPads

\* C26 as stated: in a session in which no pad message arrives, once five
\* distinct pads of the on-screen grid have been clicked the session comes to
\* the rating state.
C26_Original ==
  (capture.handprintMode /\ ~capture.padMessage /\ Cardinality(capture.clicked) >= 5)
    ~> (capture.state = "rating" \/ capture.padMessage \/ ~capture.handprintMode)

\* C27: the grid layout mode is 'chromatic' exactly while a capture session is
\* active, and 'intervals' whenever none is.
C27_GridModeFollowsSession ==
  /\ capture.handprintMode <=> gridMode = "chromatic"
  /\ ~capture.handprintMode => gridMode = "intervals"

\* A session was started, a handprint saved, and the session stopped
C27_Witness ==
  /\ ~capture.handprintMode
  /\ capture.savedHandprints > 0
  /\ gridMode = "intervals"

\* C28 as stated: in every candidate synthesizeFingerings returns, every
\* finger is in 1..5 and no two positions carry the same finger.
C28_Original ==
  Synthesized =>
    \A f \in Outputs : \A i, j \in 1..Len(f.positions) :
       /\ f.positions[i].finger \in 1..5
       /\ (i # j => f.positions[i].finger # f.positions[j].finger)

\* C29 as stated: once saveSuggestionAsPattern has saved the suggestion under
\* a name, getPatternNames lists the name and loadPattern(name) returns the
\* pattern.
C29_Original ==
  patterns.last.op = "saveSuggestion" =>
    /\ patterns.last.name \in getPatternNames(patterns)
    /\ loadPattern(patterns, patterns.last.name) = patterns.last.data

\* C30: importPattern saves the imported pattern under a name that was not in
\* use, and leaves every pattern stored before as it was.
C30_ImportKeeps ==
  (patterns.last.op = "import" /\ ~patterns.last.threw) =>
    /\ patterns.last.name \notin DOMAIN patterns.last.before
    /\ \A n \in DOMAIN patterns.last.before :
         /\ n \in DOMAIN patterns.exquisPatterns
         /\ patterns.exquisPatterns[n] = patterns.last.before[n]
    /\ loadPattern(patterns, patterns.last.name) = patterns.last.data

\* A file named "A" was imported while "A" and "A (1)" were in use, and went
\* under "A (2)"
C30_Witness ==
  /\ patterns.last.op = "import" /\ ~patterns.last.threw
  /\ {<<"A">>, <<"A", 1>>} \subseteq DOMAIN patterns.last.before
  /\ patterns.last.name = <<"A", 2>>
  /\ patterns.last.before[<<"A">>] # patterns.last.data
====
